---- MODULE Spec2Model ----
(***************************************************************************)
(* Model of the ovrlrd server's streaming session bridge:                  *)
(*   services/claude-stream.ts  (runClaudeStreaming, handleStreamMessage,  *)
(*                               cancelStream, activeSessions)             *)
(*   services/claude-config.ts  (createSubprocessTimeout)                  *)
(*   routes/chat.ts             (createStreamingCallbacks,                 *)
(*                               deduplicatePermissionDenials)             *)
(*                                                                         *)
(* The server is single threaded: the code between two awaits runs as one  *)
(* step.  Each action below is one such step (or one step of the external  *)
(* process / the timer / a caller).  Texts are sequences of one-character  *)
(* strings so that concatenation and trim() can be computed.               *)
(***************************************************************************)
EXTENDS Integers, Sequences, FiniteSets, TLC

\* ------------------------------------------------------------------ bounds
\* Number of runClaudeStreaming calls in the lifecycle specification.
MaxTurns == 2
\* Number of lines a process writes to stdout in the single-turn specification.
MaxSegOut == 4
\* Most complete lines one reader.read() chunk carries.
MaxChunk == 2
\* Most permission denials one result line carries.
MaxDenials == 3
\* Most lines a process writes in the decoding specification.
MaxLines == 3
MaxTicks == 2
TickMs == 40000

Turns == 1..MaxTurns
Convs == {"c1", "c2"}
NoTurn == 0
Null == "null"

\* ------------------------------------------------------------------ texts
IsSpace(ch) == ch = " "

RECURSIVE TrimLeft(_)
TrimLeft(s) ==
  IF s = <<>> THEN <<>>
  ELSE IF IsSpace(Head(s)) THEN TrimLeft(Tail(s)) ELSE s

RECURSIVE TrimRight(_)
TrimRight(s) ==
  IF s = <<>> THEN <<>>
  ELSE IF IsSpace(s[Len(s)]) THEN TrimRight(SubSeq(s, 1, Len(s) - 1)) ELSE s

\* String.prototype.trim()
Trim(s) == TrimRight(TrimLeft(s))

\* ------------------------------------------------------- stream-json lines
TextBlock(t) == [type |-> "text", text |-> t, name |-> Null]
ToolUseBlock(n) == [type |-> "tool_use", text |-> <<>>, name |-> n]

\* The result of content.match(/<local-command-stdout>(...)<\/local-command-stdout>/)
\* on a user message's string content: no match, or the captured text.
NoMatch == <<>>
Match(text) == <<text>>

\* content holds the content blocks of an assistant message.  For a user
\* message whose content is a string, command_output is the result of the
\* <local-command-stdout> match (its match[1], if it matched).
StreamMessage(ty, sub, sid, content, res, isErr, denials, out) ==
  [type |-> ty, subtype |-> sub, session_id |-> sid, content |-> content,
   result |-> res, is_error |-> isErr, permission_denials |-> denials,
   command_output |-> out]

SystemInit(sid) ==
  StreamMessage("system", "init", sid, <<>>, <<>>, FALSE, <<>>, NoMatch)
Assistant(blocks) ==
  StreamMessage("assistant", Null, Null, blocks, <<>>, FALSE, <<>>, NoMatch)
ResultOk(res, denials) ==
  StreamMessage("result", "success", Null, <<>>, res, FALSE, denials, NoMatch)
ResultError(res) ==
  StreamMessage("result", "error", Null, <<>>, res, TRUE, <<>>, NoMatch)
UserString(out) ==
  StreamMessage("user", Null, Null, <<>>, <<>>, FALSE, <<>>, out)

PermissionDenial(tool, id, input) ==
  [tool_name |-> tool, tool_use_id |-> id, tool_input |-> input]

\* ------------------------------------------- routes/chat.ts: the callbacks
\* StreamResult.error when it is not set; an error text is never empty.
NoError == <<>>

\* StreamingState of one handleStreamingResponse call, the SSE events it has
\* written, and (calls) the callback invocations it has received.
NewStreamingState ==
  [segments |-> <<>>, currentSegment |-> <<>>,
   result |-> [sessionId |-> Null, permissionDenials |-> <<>>, error |-> NoError],
   sse |-> <<>>, calls |-> <<>>]

writeSSEEvent(st, type, data) ==
  [st EXCEPT !.sse = Append(@, <<type, data>>)]

\* JSON.stringify of a tool_input object, as tokens: an object is the
\* sequence of its <<key, value>> entries in insertion order, and the entries
\* are written in that order.
RECURSIVE StringifyEntries(_)
StringifyEntries(entries) ==
  IF entries = <<>> THEN <<>>
  ELSE LET e == Head(entries)
       IN (IF Len(entries) > 1 THEN <<e[1], ":", e[2], ",">> ELSE <<e[1], ":", e[2]>>)
          \o StringifyEntries(Tail(entries))

JSONStringify(obj) == <<"{">> \o StringifyEntries(obj) \o <<"}">>

\* `${denial.tool_name}:${JSON.stringify(denial.tool_input)}`
DenialKey(d) == <<d.tool_name, ":">> \o JSONStringify(d.tool_input)

\* Faulty variant of deduplicatePermissionDenials: the last denial of every
\* key is kept instead of the first.
RECURSIVE deduplicateKeepsLast(_)
deduplicateKeepsLast(denials) ==
  IF denials = <<>> THEN <<>>
  ELSE LET rest == Tail(denials)
       IN IF \E i \in 1..Len(rest) : DenialKey(rest[i]) = DenialKey(Head(denials))
          THEN deduplicateKeepsLast(rest)
          ELSE <<Head(denials)>> \o deduplicateKeepsLast(rest)

RECURSIVE deduplicatePermissionDenials(_)
deduplicatePermissionDenials(denials) ==
  IF denials = <<>> THEN <<>>
  ELSE LET front == SubSeq(denials, 1, Len(denials) - 1)
           last == denials[Len(denials)]
           kept == deduplicatePermissionDenials(front)
       IN IF \E i \in 1..Len(front) : DenialKey(front[i]) = DenialKey(last)
          THEN kept
          ELSE Append(kept, last)

Logged(st, name, arg) == [st EXCEPT !.calls = Append(@, <<name, arg>>)]

onChunk(st, text) ==
  LET s1 == Logged(st, "onChunk", text)
      s2 == [s1 EXCEPT !.currentSegment = @ \o text]
  IN writeSSEEvent(s2, "chunk", text)

onSegmentEnd(st, content) ==
  LET s1 == Logged(st, "onSegmentEnd", content)
      s2 == IF Trim(content) # <<>>
            THEN writeSSEEvent([s1 EXCEPT !.segments = Append(@, content)],
                               "segment_end", content)
            ELSE s1
  IN [s2 EXCEPT !.currentSegment = <<>>]

onToolStart(st, toolName) ==
  writeSSEEvent(Logged(st, "onToolStart", <<toolName>>), "tool_start", <<toolName>>)

onToolEnd(st, toolName) ==
  writeSSEEvent(Logged(st, "onToolEnd", <<toolName>>), "tool_end", <<toolName>>)

\* Faulty variant of onComplete: denials do not change the terminal event.
onCompleteIgnoresDenials(st, result, sessionId, permissionDenials) ==
  LET s1 == Logged(st, "onComplete", <<sessionId>>)
      s2 == [s1 EXCEPT !.result = [sessionId |-> sessionId,
                                   permissionDenials |-> <<>>,
                                   error |-> NoError]]
  IN IF Trim(s2.currentSegment) # <<>> \/ Len(s2.segments) > 0
     THEN writeSSEEvent(s2, "complete", <<>>)
     ELSE writeSSEEvent(s2, "no_response", <<>>)

onComplete(st, result, sessionId, permissionDenials) ==
  LET s1 == Logged(st, "onComplete", <<sessionId>>)
      deduplicatedDenials == deduplicatePermissionDenials(permissionDenials)
      s2 == [s1 EXCEPT !.result = [sessionId |-> sessionId,
                                   permissionDenials |-> deduplicatedDenials,
                                   error |-> NoError]]
  IN IF Len(deduplicatedDenials) > 0
     THEN writeSSEEvent(s2, "permission_required", deduplicatedDenials)
     ELSE IF Trim(s2.currentSegment) # <<>> \/ Len(s2.segments) > 0
          THEN writeSSEEvent(s2, "complete", <<>>)
          ELSE writeSSEEvent(s2, "no_response", <<>>)

onError(st, error) ==
  LET s1 == Logged(st, "onError", error)
      s2 == [s1 EXCEPT !.result = [sessionId |-> Null,
                                   permissionDenials |-> <<>>,
                                   error |-> error]]
  IN writeSSEEvent(s2, "error", error)

\* ------------------------------- claude-stream.ts: handleStreamMessage
\* A session is the StreamSession object's mutable fields; cb is the state
\* behind its callbacks.  Both are threaded through as one record.
NewSession(claudeSessionId) ==
  [sessionId |-> claudeSessionId, currentSegment |-> <<>>, lastToolName |-> Null]

\* A string that JavaScript takes as true: neither null/undefined nor ''.
Truthy(x) == x # Null /\ x # ""

\* Faulty variant of EstablishesSession: the subtype is not looked at.
EstablishesSessionAnySubtype(msg) == Truthy(msg.session_id)

\* Line 211: `msg.subtype === 'init' && msg.session_id`.
EstablishesSession(msg) == msg.subtype = "init" /\ Truthy(msg.session_id)

\* "If we were waiting on a tool, signal it ended"
EndPendingTool(sc) ==
  IF sc.s.lastToolName # Null
  THEN [s |-> [sc.s EXCEPT !.lastToolName = Null],
        cb |-> onToolEnd(sc.cb, sc.s.lastToolName)]
  ELSE sc

\* Faulty variant of HandleTextBlock: new text does not end the pending tool.
HandleTextBlockKeepsTool(sc, block) ==
  [s |-> [sc.s EXCEPT !.currentSegment = @ \o block.text],
   cb |-> onChunk(sc.cb, block.text)]

HandleTextBlock(sc, block) ==
  LET a == EndPendingTool(sc)
  IN [s |-> [a.s EXCEPT !.currentSegment = @ \o block.text],
      cb |-> onChunk(a.cb, block.text)]

\* Faulty variant of HandleToolUseBlock: the finalized segment is not cleared.
HandleToolUseBlockKeepsText(sc, block) ==
  LET a == IF Trim(sc.s.currentSegment) # <<>>
           THEN [sc EXCEPT !.cb = onSegmentEnd(@, sc.s.currentSegment)]
           ELSE sc
  IN [s |-> [a.s EXCEPT !.lastToolName = block.name],
      cb |-> onToolStart(a.cb, block.name)]

\* Faulty variant of HandleToolUseBlock: the tool start is signalled before
\* the current segment is finalized.
HandleToolUseBlockStartsFirst(sc, block) ==
  LET a == [s |-> [sc.s EXCEPT !.lastToolName = block.name],
            cb |-> onToolStart(sc.cb, block.name)]
  IN IF Trim(sc.s.currentSegment) # <<>>
     THEN [s |-> [a.s EXCEPT !.currentSegment = <<>>],
           cb |-> onSegmentEnd(a.cb, sc.s.currentSegment)]
     ELSE a

\* Faulty variant of HandleToolUseBlock: the current segment is not finalized
\* before the tool starts.
HandleToolUseBlockKeepsSegment(sc, block) ==
  [s |-> [sc.s EXCEPT !.lastToolName = block.name],
   cb |-> onToolStart(sc.cb, block.name)]

HandleToolUseBlock(sc, block) ==
  LET a == IF Trim(sc.s.currentSegment) # <<>>
           THEN [s |-> [sc.s EXCEPT !.currentSegment = <<>>],
                 cb |-> onSegmentEnd(sc.cb, sc.s.currentSegment)]
           ELSE sc
  IN [s |-> [a.s EXCEPT !.lastToolName = block.name],
      cb |-> onToolStart(a.cb, block.name)]

\* Faulty variant of HandleBlock: the text and the name are not looked at.
HandleBlockOfAnyContent(sc, block) ==
  IF block.type = "text" THEN HandleTextBlock(sc, block)
  ELSE IF block.type = "tool_use" THEN HandleToolUseBlock(sc, block)
  ELSE sc

HandleBlock(sc, block) ==
  IF block.type = "text" /\ block.text # <<>> THEN HandleTextBlock(sc, block)
  ELSE IF block.type = "tool_use" /\ block.name # Null THEN HandleToolUseBlock(sc, block)
  ELSE sc

RECURSIVE HandleBlocks(_, _)
HandleBlocks(sc, blocks) ==
  IF blocks = <<>> THEN sc
  ELSE HandleBlocks(HandleBlock(sc, Head(blocks)), Tail(blocks))

\* Faulty variant of HandleResult: the result does not end the pending tool.
HandleResultKeepsTool(sc, msg) ==
  IF msg.is_error
  THEN [sc EXCEPT !.cb = onError(@, IF msg.result # <<>> THEN msg.result
                                    ELSE <<"Unknown error">>)]
  ELSE [sc EXCEPT !.cb = onComplete(@, msg.result, sc.s.sessionId,
                                    msg.permission_denials)]

HandleResult(sc, msg) ==
  LET a == EndPendingTool(sc)
  IN IF msg.is_error
     THEN [a EXCEPT !.cb = onError(@, IF msg.result # <<>> THEN msg.result
                                      ELSE <<"Unknown error">>)]
     ELSE [a EXCEPT !.cb = onComplete(@, msg.result, a.s.sessionId,
                                      msg.permission_denials)]

\* "Check for slash command output": match && match[1]
HandleUser(sc, msg) ==
  IF msg.command_output # NoMatch /\ msg.command_output[1] # <<>>
  THEN LET commandOutput == Trim(msg.command_output[1])
       IN [s |-> [sc.s EXCEPT !.currentSegment = @ \o commandOutput],
           cb |-> onChunk(sc.cb, commandOutput)]
  ELSE sc

handleStreamMessage(sc, msg) ==
  CASE msg.type = "system" ->
         IF EstablishesSession(msg)
         THEN [sc EXCEPT !.s.sessionId = msg.session_id]
         ELSE sc
    [] msg.type = "assistant" -> HandleBlocks(sc, msg.content)
    [] msg.type = "result" -> HandleResult(sc, msg)
    [] msg.type = "user" -> HandleUser(sc, msg)
    [] OTHER -> sc

\* The domain signals one decoded message stands for, in order (the branches
\* of handleStreamMessage that act).
BlockSignals(block) ==
  IF block.type = "text" /\ block.text # <<>> THEN << <<"TextDelta", block.text>> >>
  ELSE IF block.type = "tool_use" /\ block.name # Null
       THEN << <<"ToolInvoked", <<block.name>>>> >>
       ELSE <<>>

RECURSIVE BlocksSignals(_)
BlocksSignals(blocks) ==
  IF blocks = <<>> THEN <<>>
  ELSE BlockSignals(Head(blocks)) \o BlocksSignals(Tail(blocks))

MessageSignals(msg) ==
  CASE msg.type = "system" ->
         IF EstablishesSession(msg)
         THEN << <<"SessionEstablished", <<msg.session_id>>>> >>
         ELSE <<>>
    [] msg.type = "assistant" -> BlocksSignals(msg.content)
    [] msg.type = "result" ->
         IF msg.is_error THEN << <<"TurnFailed", msg.result>> >>
         ELSE << <<"TurnSucceeded", msg.result>> >>
    [] msg.type = "user" ->
         IF msg.command_output # NoMatch /\ msg.command_output[1] # <<>>
         THEN << <<"TextDelta", Trim(msg.command_output[1])>> >>
         ELSE <<>>
    [] OTHER -> <<>>

RECURSIVE Signals(_)
Signals(msgs) ==
  IF msgs = <<>> THEN <<>>
  ELSE MessageSignals(Head(msgs)) \o Signals(Tail(msgs))

RECURSIVE HandleLines(_, _)
HandleLines(sc, lines) ==
  IF lines = <<>> THEN sc
  ELSE HandleLines(handleStreamMessage(sc, Head(lines)), Tail(lines))

\* ---------------------------------- runClaudeStreaming: decoding of stdout
\* Decoded text is a sequence of characters.  The JSON text of a message is
\* abbreviated to an opening brace, one body character and a closing brace:
\* {a} and {b} are the assistant messages with the texts a and b.  Any other
\* text makes JSON.parse throw.
NewLine == "\n"
SyntaxError == [type |-> "SyntaxError"]

\* String.prototype.split('\n')
RECURSIVE Split(_)
Split(text) ==
  IF \A i \in 1..Len(text) : text[i] # NewLine THEN <<text>>
  ELSE LET i == CHOOSE k \in 1..Len(text) :
                  text[k] = NewLine /\ \A j \in 1..(k - 1) : text[j] # NewLine
       IN <<SubSeq(text, 1, i - 1)>> \o Split(SubSeq(text, i + 1, Len(text)))

\* JSON.parse, which allows white space around the value.
JSONParse(text) ==
  LET value == Trim(text)
  IN IF Len(value) = 3 /\ value[1] = "{" /\ value[3] = "}" /\ value[2] \in {"a", "b"}
     THEN Assistant(<<TextBlock(<<value[2]>>)>>)
     ELSE SyntaxError

\* Faulty variant of ParsedLines: the first line that does not parse ends the
\* handling of the lines after it.
RECURSIVE ParsedLinesStopsAtError(_)
ParsedLinesStopsAtError(lines) ==
  IF lines = <<>> THEN <<>>
  ELSE IF Trim(Head(lines)) = <<>> THEN ParsedLinesStopsAtError(Tail(lines))
  ELSE IF JSONParse(Head(lines)) = SyntaxError THEN <<>>
  ELSE <<JSONParse(Head(lines))>> \o ParsedLinesStopsAtError(Tail(lines))

\* The messages the loop over `lines` gives to handleStreamMessage, in order:
\* a blank line is skipped, a line that does not parse is caught and logged.
RECURSIVE ParsedLines(_)
ParsedLines(lines) ==
  IF lines = <<>> THEN <<>>
  ELSE IF Trim(Head(lines)) = <<>> THEN ParsedLines(Tail(lines))
  ELSE IF JSONParse(Head(lines)) = SyntaxError THEN ParsedLines(Tail(lines))
  ELSE <<JSONParse(Head(lines))>> \o ParsedLines(Tail(lines))

\* Faulty variant of DecodeChunk: the text buffered by the previous read is
\* forgotten.
DecodeChunkDropsBuffer(buf, value) ==
  LET lines == Split(value)
  IN [buffer |-> lines[Len(lines)],
      parsed |-> ParsedLines(SubSeq(lines, 1, Len(lines) - 1))]

\* One pass of the loop body, lines 149-164: the new buffer (lines.pop()) and
\* the messages of the complete lines.
DecodeChunk(buf, value) ==
  LET lines == Split(buf \o value)
  IN [buffer |-> lines[Len(lines)],
      parsed |-> ParsedLines(SubSeq(lines, 1, Len(lines) - 1))]

\* "Process any remaining buffer", lines 167-175.
DecodeRest(buf) == ParsedLines(<<buf>>)

\* ------------------------------------------------------------------ state
VARIABLES
  pc,              \* per runClaudeStreaming call: "new", "reading" (awaiting
                   \* reader.read()), "awaitExit" (awaiting proc.exited), "done"
  conversationId,  \* per call: its conversationId argument
  activeSessions,  \* the Map: conversationId -> the call whose session it holds
  proc,            \* per call: its subprocess: none, running, killed, exited0, exitedN
  buffer,          \* per call: the local `buffer` (a line without its newline)
  timer,           \* per call: the setTimeout: none, pending, fired, cancelled
  timedOut,        \* per call: the local `timedOut`
  reader,          \* per call: stdout reader lock: none, locked, released
  session,         \* per call: [s |-> StreamSession fields, cb |-> callback state]
  handled,         \* per call: the messages given to handleStreamMessage
  startLog,        \* per call: resource operations of lines 81-120, in order
  exitLog,         \* per call: resource operations of its exit path, in order
  cancelled,       \* calls that cancelStream terminated
  evicted,         \* calls that a later runClaudeStreaming terminated
  stdout,          \* per call: the characters its process writes to stdout
                   \* (written) and how many of them were read (nread); only
                   \* the decoding specification records them
  response,        \* per runClaude call: its responseText and sessionId, and
                   \* how the call ended
  db,              \* the database: claudeSessionId and messages per
                   \* conversation; per request the route's copy of the
                   \* conversation row and the persistence calls made, in order
  rateLimitStore,  \* the rate limiter's Map: key -> entry (count, resetAt)
  now,             \* Date.now()
  requests         \* the requests so far: per user and limiter those made in
                   \* the limiter's own window, and the last response

vars == <<pc, conversationId, activeSessions, proc, buffer, timer,
          timedOut, reader, session, handled, startLog, exitLog, cancelled, evicted,
          stdout, response, db, rateLimitStore, now, requests>>

\* What the steps of runClaudeStreaming and cancelStream never touch.
otherVars == <<response, db, rateLimitStore, now, requests>>

NoLine == [type |-> "none"]

\* The state before any call: no session, no process, no timer.
NoOutput == [written |-> <<>>, nread |-> 0]

\* runClaude's locals before any output: responseText = '', sessionId = ''.
NoResponse == [text |-> <<>>, sessionId |-> "", outcome |-> "none"]

\* The database before any turn: no conversation has a claudeSessionId, and
\* nothing was stored for any call.
NewDb(T, C) ==
  [claudeSessionId |-> [c \in C |-> Null], messages |-> [c \in C |-> <<>>],
   conversation |-> [t \in T |-> <<>>], calls |-> [t \in T |-> <<>>]]

\* new Map(): no key.
EmptyMap == <<>>

NoRequests == [made |-> EmptyMap, last |-> <<>>]

StartStateWith(T, C, rows) ==
  /\ pc = [t \in T |-> "new"]
  /\ conversationId = [t \in T |-> Null]
  /\ activeSessions = [c \in C |-> NoTurn]
  /\ proc = [t \in T |-> "none"]
  /\ timer = [t \in T |-> "none"]
  /\ timedOut = [t \in T |-> FALSE]
  /\ reader = [t \in T |-> "none"]
  /\ session = [t \in T |-> [s |-> NewSession(Null), cb |-> NewStreamingState]]
  /\ handled = [t \in T |-> <<>>]
  /\ startLog = [t \in T |-> <<>>]
  /\ exitLog = [t \in T |-> <<>>]
  /\ cancelled = {}
  /\ evicted = {}
  /\ response = [t \in T |-> NoResponse]
  /\ db = rows
  /\ rateLimitStore = EmptyMap
  /\ now = 0
  /\ requests = NoRequests

StartState(T, C) == StartStateWith(T, C, NewDb(T, C))

InitFor(T, C) ==
  /\ StartState(T, C)
  /\ buffer = [t \in T |-> NoLine]
  /\ stdout = [t \in T |-> NoOutput]

\* ------------------------------------------------- resources, one each
\* Faulty variant of Kill: the signal is never sent.
KillNothing(p) == p

\* process.kill(): a signal to a running process; a dead one is left alone
\* (the error, if any, is swallowed by the callers' try/catch).
Kill(p) == IF p = "running" THEN "killed" ELSE p

\* Faulty variant of ClearTimeoutId: the timer is left as it is.
ClearTimeoutIdSkipped(x) == x

\* clearTimeout(timeoutId): cancels a pending timer, otherwise does nothing.
ClearTimeoutId(x) == IF x = "pending" THEN "cancelled" ELSE x

\* Faulty variant of ReleaseLock: the lock is kept.
ReleaseLockSkipped(r) == r

\* reader.releaseLock()
ReleaseLock(r) == "released"

\* Faulty variant of MapDelete: the entry is kept.
MapDeleteNothing(map, c) == map

\* activeSessions.delete(conversationId)
MapDelete(map, c) == [map EXCEPT ![c] = NoTurn]

\* activeSessions.set(conversationId, session)
MapSet(map, c, t) == [map EXCEPT ![c] = t]

\* The termination of a registered session, as runClaudeStreaming (lines
\* 82-92) and cancelStream (lines 291-300) both write it.
TerminateOps(e) == << <<"clearTimeout", e>>, <<"kill", e>>, <<"delete", e>> >>

\* ------------------------------------------- runClaudeStreaming: lines 70-146
\* The synchronous part of the call, up to the first await.
RunClaudeStreaming(t, c, claudeSessionId, writeFails) ==
  /\ pc[t] = "new"
  /\ \A u \in 1..(t - 1) : pc[u] # "new"
  /\ LET existingSession == activeSessions[c]
         hit == existingSession # NoTurn
         timer1 == IF hit THEN [timer EXCEPT ![existingSession] = ClearTimeoutId(@)]
                   ELSE timer
         proc1 == IF hit THEN [proc EXCEPT ![existingSession] = Kill(@)] ELSE proc
         map1 == IF hit THEN MapDelete(activeSessions, c) ELSE activeSessions
         \* Bun.spawn, createSubprocessTimeout, activeSessions.set
         proc2 == [proc1 EXCEPT ![t] = "running"]
         timer2 == [timer1 EXCEPT ![t] = "pending"]
         map2 == MapSet(map1, c, t)
         sc == [s |-> NewSession(claudeSessionId), cb |-> NewStreamingState]
     IN /\ conversationId' = [conversationId EXCEPT ![t] = c]
        /\ evicted' = IF hit THEN evicted \cup {existingSession} ELSE evicted
        /\ startLog' = [startLog EXCEPT ![t] =
             (IF hit THEN TerminateOps(existingSession) ELSE <<>>)
             \o << <<"spawn", t>>, <<"setTimeout", t>>, <<"set", t>> >>]
        /\ IF writeFails
           THEN \* catch of lines 126-137
                /\ timer' = [timer2 EXCEPT ![t] = ClearTimeoutId(@)]
                /\ activeSessions' = MapDelete(map2, c)
                /\ session' = [session EXCEPT ![t] =
                     [sc EXCEPT !.cb = onError(@, <<"Failed to send message">>)]]
                /\ proc' = [proc2 EXCEPT ![t] = Kill(@)]
                /\ exitLog' = [exitLog EXCEPT ![t] =
                     << <<"clearTimeout", t>>, <<"delete", map2[c]>>,
                        <<"onError", t>>, <<"kill", t>> >>]
                /\ pc' = [pc EXCEPT ![t] = "done"]
                /\ UNCHANGED reader
           ELSE /\ timer' = timer2
                /\ activeSessions' = map2
                /\ session' = [session EXCEPT ![t] = sc]
                /\ proc' = proc2
                /\ reader' = [reader EXCEPT ![t] = "locked"]
                /\ pc' = [pc EXCEPT ![t] = "reading"]
                /\ UNCHANGED exitLog
  /\ UNCHANGED <<otherVars, stdout, buffer, timedOut, handled, cancelled>>

\* ------------------------------------------------------ the external process
\* The process ends by itself, with code 0 or not.  A killed process is gone:
\* its stdout has no writer any more and proc.exited resolves.
ProcExit(t, code) ==
  /\ proc[t] = "running"
  /\ proc' = [proc EXCEPT ![t] = IF code = 0 THEN "exited0" ELSE "exitedN"]
  /\ UNCHANGED <<otherVars, stdout, pc, conversationId, activeSessions, buffer, timer,
                 timedOut, reader, session, handled, startLog, exitLog, cancelled,
                 evicted>>

\* ------------------------------------------------ the timer: claude-config.ts
\* createSubprocessTimeout's callback: onTimeout() (lines 104-108 of
\* claude-stream.ts), then proc.kill().
TimeoutFires(t) ==
  /\ timer[t] = "pending"
  /\ timer' = [timer EXCEPT ![t] = "fired"]
  /\ timedOut' = [timedOut EXCEPT ![t] = TRUE]
  /\ session' = [session EXCEPT ![t].cb = onError(@, <<"Request timed out">>)]
  /\ proc' = [proc EXCEPT ![t] = Kill(@)]
  /\ UNCHANGED <<otherVars, stdout, pc, conversationId, activeSessions, buffer, reader,
                 handled, startLog, exitLog, cancelled, evicted>>

\* ------------------------------------------- runClaudeStreaming: the read loop
\* One reader.read() that resolves with data: complete lines, and possibly a
\* last line whose newline is missing (partial, or NoLine).  The data is what
\* the process wrote while it ran, so it can still arrive after the process was
\* killed or has exited.  Complete lines are handled in order; the partial line
\* stays in `buffer` (lines 146-165) and is the last thing the process wrote.
ReadChunk(t, lines, partial) ==
  /\ pc[t] = "reading"
  /\ buffer[t] = NoLine
  /\ lines # <<>> \/ partial # NoLine
  /\ session' = [session EXCEPT ![t] = HandleLines(@, lines)]
  /\ handled' = [handled EXCEPT ![t] = @ \o lines]
  /\ buffer' = [buffer EXCEPT ![t] = partial]
  /\ UNCHANGED <<otherVars, stdout, pc, conversationId, activeSessions, proc, timer, timedOut,
                 reader, startLog, exitLog, cancelled, evicted>>

\* The finally block, lines 181-186.
FinallyOps(t, c) ==
  << <<"clearTimeout", t>>, <<"releaseLock", t>>, <<"delete", activeSessions[c]>> >>

Finally(t) ==
  /\ timer' = [timer EXCEPT ![t] = ClearTimeoutId(@)]
  /\ reader' = [reader EXCEPT ![t] = ReleaseLock(@)]
  /\ activeSessions' = MapDelete(activeSessions, conversationId[t])
  /\ exitLog' = [exitLog EXCEPT ![t] = FinallyOps(t, conversationId[t])]
  /\ pc' = [pc EXCEPT ![t] = "awaitExit"]

\* reader.read() resolves with done: stdout is drained and its writer is gone.
\* The remaining buffer is handled (lines 167-175), then the finally block runs.
ReadDone(t) ==
  /\ pc[t] = "reading"
  /\ proc[t] # "running"
  /\ LET rest == IF buffer[t] = NoLine THEN <<>> ELSE <<buffer[t]>>
     IN /\ session' = [session EXCEPT ![t] = HandleLines(@, rest)]
        /\ handled' = [handled EXCEPT ![t] = @ \o rest]
  /\ buffer' = [buffer EXCEPT ![t] = NoLine]
  /\ Finally(t)
  /\ UNCHANGED <<otherVars, stdout, conversationId, proc, timedOut, startLog, cancelled,
                 evicted>>

\* The same two steps with the decoding spelled out: `buffer` is decoded
\* text, and a read returns the next n characters of what the process writes,
\* wherever the line ends fall.
ReadBytes(t, n) ==
  /\ pc[t] = "reading"
  /\ n \in 1..(Len(stdout[t].written) - stdout[t].nread)
  /\ LET value == SubSeq(stdout[t].written, stdout[t].nread + 1, stdout[t].nread + n)
         decoded == DecodeChunk(buffer[t], value)
     IN /\ session' = [session EXCEPT ![t] = HandleLines(@, decoded.parsed)]
        /\ handled' = [handled EXCEPT ![t] = @ \o decoded.parsed]
        /\ buffer' = [buffer EXCEPT ![t] = decoded.buffer]
  /\ stdout' = [stdout EXCEPT ![t].nread = @ + n]
  /\ UNCHANGED <<otherVars, pc, conversationId, activeSessions, proc, timer, timedOut,
                 reader, startLog, exitLog, cancelled, evicted>>

ReadBytesDone(t) ==
  /\ pc[t] = "reading"
  /\ proc[t] # "running"
  /\ stdout[t].nread = Len(stdout[t].written)
  /\ LET rest == DecodeRest(buffer[t])
     IN /\ session' = [session EXCEPT ![t] = HandleLines(@, rest)]
        /\ handled' = [handled EXCEPT ![t] = @ \o rest]
  /\ Finally(t)
  /\ UNCHANGED <<otherVars, stdout, buffer, conversationId, proc, timedOut, startLog,
                 cancelled, evicted>>

\* Faulty variant of ReadError: the read error is reported whether or not the
\* timeout has fired.
ReadErrorAlwaysReports(t) ==
  /\ pc[t] = "reading"
  /\ proc[t] # "running"
  /\ session' = [session EXCEPT ![t].cb = onError(@, <<"Stream read error">>)]
  /\ buffer' = [buffer EXCEPT ![t] = NoLine]
  /\ Finally(t)
  /\ UNCHANGED <<otherVars, stdout, conversationId, proc, timedOut, handled, startLog,
                 cancelled, evicted>>

\* reader.read() rejects: the catch of lines 176-180, then the finally block.
\* A pending read fails only once the process is gone (killed or exited).
ReadError(t) ==
  /\ pc[t] = "reading"
  /\ proc[t] # "running"
  /\ session' = [session EXCEPT ![t].cb =
       IF ~timedOut[t] THEN onError(@, <<"Stream read error">>) ELSE @]
  /\ buffer' = [buffer EXCEPT ![t] = NoLine]
  /\ Finally(t)
  /\ UNCHANGED <<otherVars, stdout, conversationId, proc, timedOut, handled, startLog,
                 cancelled, evicted>>

\* await proc.exited resolves (lines 188-205); stderr is only logged.
AwaitExit(t) ==
  /\ pc[t] = "awaitExit"
  /\ proc[t] \in {"killed", "exited0", "exitedN"}
  /\ pc' = [pc EXCEPT ![t] = "done"]
  /\ UNCHANGED <<otherVars, stdout, conversationId, activeSessions, proc, buffer, timer,
                 timedOut, reader, session, handled, startLog, exitLog, cancelled,
                 evicted>>

\* ------------------------------------------------------------- cancelStream
\* The value cancelStream(c) returns in the current state.
cancelStreamReturns(c) == activeSessions[c] # NoTurn

cancelStream(c) ==
  IF cancelStreamReturns(c)
  THEN LET t == activeSessions[c]
       IN /\ timer' = [timer EXCEPT ![t] = ClearTimeoutId(@)]
          /\ proc' = [proc EXCEPT ![t] = Kill(@)]
          /\ activeSessions' = MapDelete(activeSessions, c)
          /\ cancelled' = cancelled \cup {t}
          /\ UNCHANGED <<otherVars, stdout, pc, conversationId, buffer, timedOut, reader,
                         session, handled, startLog, exitLog, evicted>>
  ELSE UNCHANGED vars

\* ------------------------------------------------- services/claude.ts: runClaude
\* Lines 60-78: what one parsed event does to sessionId and responseText.
RECURSIVE TextOfBlocks(_)
TextOfBlocks(blocks) ==
  IF blocks = <<>> THEN <<>>
  ELSE (IF Head(blocks).type = "text" THEN Head(blocks).text ELSE <<>>)
       \o TextOfBlocks(Tail(blocks))

HandleEvent(r, event) ==
  LET r1 == IF event.type = "system" /\ Truthy(event.session_id)
            THEN [r EXCEPT !.sessionId = event.session_id]
            ELSE r
  IN IF event.type = "assistant"
     THEN LET r2 == [r1 EXCEPT !.text = @ \o TextOfBlocks(event.content)]
          IN IF Truthy(event.session_id)
             THEN [r2 EXCEPT !.sessionId = event.session_id]
             ELSE r2
     ELSE r1

RECURSIVE HandleEvents(_, _)
HandleEvents(r, events) ==
  IF events = <<>> THEN r
  ELSE HandleEvents(HandleEvent(r, Head(events)), Tail(events))

\* Lines 25-43: spawn, timeout, reader.
RunClaude(t) ==
  /\ pc[t] = "new"
  /\ pc' = [pc EXCEPT ![t] = "reading"]
  /\ proc' = [proc EXCEPT ![t] = "running"]
  /\ timer' = [timer EXCEPT ![t] = "pending"]
  /\ reader' = [reader EXCEPT ![t] = "locked"]
  /\ response' = [response EXCEPT ![t] = NoResponse]
  /\ UNCHANGED <<conversationId, activeSessions, buffer, timedOut, session,
                 handled, startLog, exitLog, cancelled, evicted, stdout, db,
                 rateLimitStore, now, requests>>

\* The timeout callback of lines 34-37, then proc.kill() (claude-config.ts).
RunClaudeTimeoutFires(t) ==
  /\ timer[t] = "pending"
  /\ timer' = [timer EXCEPT ![t] = "fired"]
  /\ timedOut' = [timedOut EXCEPT ![t] = TRUE]
  /\ proc' = [proc EXCEPT ![t] = Kill(@)]
  /\ UNCHANGED <<pc, conversationId, activeSessions, buffer, reader, session,
                 handled, startLog, exitLog, cancelled, evicted, stdout,
                 response, db, rateLimitStore, now, requests>>

\* One reader.read() with data, lines 47-82: complete lines, possibly a last
\* line without its newline, which stays in `buffer`.
RunClaudeRead(t, lines, partial) ==
  /\ pc[t] = "reading"
  /\ buffer[t] = NoLine
  /\ lines # <<>> \/ partial # NoLine
  /\ response' = [response EXCEPT ![t] = HandleEvents(@, lines)]
  /\ handled' = [handled EXCEPT ![t] = @ \o lines]
  /\ buffer' = [buffer EXCEPT ![t] = partial]
  /\ UNCHANGED <<pc, conversationId, activeSessions, proc, timer, timedOut,
                 reader, session, startLog, exitLog, cancelled, evicted, stdout,
                 db, rateLimitStore, now, requests>>

\* reader.read() resolves with done: the loop breaks and clearTimeout() runs
\* (line 86); what is left in `buffer` is not parsed.
RunClaudeReadDone(t) ==
  /\ pc[t] = "reading"
  /\ proc[t] # "running"
  /\ timer' = [timer EXCEPT ![t] = ClearTimeoutId(@)]
  /\ exitLog' = [exitLog EXCEPT ![t] = << <<"clearTimeout", t>> >>]
  /\ pc' = [pc EXCEPT ![t] = "awaitExit"]
  /\ UNCHANGED <<conversationId, activeSessions, proc, buffer, timedOut, reader,
                 session, handled, startLog, cancelled, evicted, stdout,
                 response, db, rateLimitStore, now, requests>>

\* The catch and finally blocks, lines 109-120.
ThrowOps(t) ==
  << <<"kill", t>>, <<"clearTimeout", t>>, <<"releaseLock", t>> >>

RunClaudeThrow(t) ==
  /\ proc' = [proc EXCEPT ![t] = Kill(@)]
  /\ timer' = [timer EXCEPT ![t] = ClearTimeoutId(@)]
  /\ reader' = [reader EXCEPT ![t] = ReleaseLock(@)]
  /\ exitLog' = [exitLog EXCEPT ![t] = @ \o ThrowOps(t)]
  /\ response' = [response EXCEPT ![t].outcome = "threw"]
  /\ pc' = [pc EXCEPT ![t] = "done"]

\* reader.read() rejects: catch, finally.
RunClaudeReadError(t) ==
  /\ pc[t] = "reading"
  /\ proc[t] # "running"
  /\ RunClaudeThrow(t)
  /\ UNCHANGED <<conversationId, activeSessions, buffer, timedOut, session,
                 handled, startLog, cancelled, evicted, stdout, db,
                 rateLimitStore, now, requests>>

\* Faulty variant of Throws: only the timeout makes the call throw.
ThrowsOnTimeoutOnly(timedOutFlag, p) == timedOutFlag

\* Lines 90-104: after proc.exited, `timedOut` or an exit code other than 0
\* throws.
Throws(timedOutFlag, p) == timedOutFlag \/ p # "exited0"

\* proc.exited resolves, lines 88-108, then the finally block (and the catch
\* block before it when the call throws).
RunClaudeExited(t) ==
  /\ pc[t] = "awaitExit"
  /\ proc[t] \in {"killed", "exited0", "exitedN"}
  /\ IF Throws(timedOut[t], proc[t])
     THEN RunClaudeThrow(t)
     ELSE /\ timer' = [timer EXCEPT ![t] = ClearTimeoutId(@)]
          /\ reader' = [reader EXCEPT ![t] = ReleaseLock(@)]
          /\ exitLog' = [exitLog EXCEPT ![t] =
               @ \o << <<"clearTimeout", t>>, <<"releaseLock", t>> >>]
          /\ response' = [response EXCEPT ![t].outcome = "returned"]
          /\ pc' = [pc EXCEPT ![t] = "done"]
          /\ UNCHANGED proc
  /\ UNCHANGED <<conversationId, activeSessions, buffer, timedOut, session,
                 handled, startLog, cancelled, evicted, stdout, db,
                 rateLimitStore, now, requests>>

\* ------------------------------------- routes/chat.ts: POST /chat/:id/stream
\* Lines 443-455: the route loads the conversation row (authorizeConversation)
\* and stores the user's message; `conversation` is that copy of the row from
\* then on.
PostStream(t, c) ==
  /\ pc[t] = "new"
  /\ db.conversation[t] = <<>>
  /\ \A u \in 1..(t - 1) : db.conversation[u] # <<>>
  /\ db' = [db EXCEPT
       !.conversation[t] = <<[id |-> c, claudeSessionId |-> db.claudeSessionId[c]]>>,
       !.messages[c] = Append(@, <<"user", t>>)]
  /\ UNCHANGED <<pc, conversationId, activeSessions, proc, buffer, timer,
                 timedOut, reader, session, handled, startLog, exitLog,
                 cancelled, evicted, stdout, response, rateLimitStore, now,
                 requests>>

\* Lines 265-279: handleStreamingResponse up to `await runClaudeStreaming`.
handleStreamingResponse(t, writeFails) ==
  /\ db.conversation[t] # <<>>
  /\ RunClaudeStreaming(t, db.conversation[t][1].id,
                        db.conversation[t][1].claudeSessionId, writeFails)

\* storeSegments, lines 220-227.
RECURSIVE CreateMessages(_, _)
CreateMessages(id, contents) ==
  IF contents = <<>> THEN <<>>
  ELSE << <<"createMessage", id, Head(contents)>> >>
       \o CreateMessages(id, Tail(contents))

storeSegments(id, segments, currentSegment) ==
  CreateMessages(id, segments)
  \o (IF Trim(currentSegment) # <<>>
      THEN << <<"createMessage", id, currentSegment>> >> ELSE <<>>)

\* Faulty variant of persistStreamResult: the segment in progress is not stored.
persistFinishedSegments(conversation, state) ==
  CreateMessages(conversation.id, state.segments)

\* persistStreamResult, lines 171-218: the calls it awaits, in order.
persistStreamResult(conversation, state) ==
  LET result == state.result
      allSegments == IF Trim(state.currentSegment) # <<>>
                     THEN Append(state.segments, state.currentSegment)
                     ELSE state.segments
  IN (IF Truthy(result.sessionId) /\ result.sessionId # conversation.claudeSessionId
      THEN << <<"updateClaudeSessionId", conversation.id, result.sessionId>> >>
      ELSE <<>>)
     \o (IF Len(result.permissionDenials) > 0
         THEN storeSegments(conversation.id, state.segments, state.currentSegment)
         ELSE IF Len(allSegments) > 0
              THEN CreateMessages(conversation.id, allSegments)
                   \o << <<"generateAndUpdateTitle", conversation.id, allSegments>>,
                         <<"sendMessageReadyNotification", conversation.id, allSegments>> >>
              ELSE <<>>)

\* What one awaited call does to the database (db/conversations, db/messages).
DbCall(d, call) ==
  IF call[1] = "updateClaudeSessionId"
  THEN [d EXCEPT !.claudeSessionId[call[2]] = call[3]]
  ELSE IF call[1] = "createMessage"
       THEN [d EXCEPT !.messages[call[2]] = Append(@, <<"assistant", call[3]>>)]
       ELSE d

\* Faulty variant of Returned: handleStreamingResponse goes on while the call
\* is still running.
ReturnedOrRunning(p) == p # "new"

\* Line 273: `await runClaudeStreaming(...)` has resolved.
Returned(p) == p \in {"done", "persisting"}

\* Lines 281-287 and each later resumption of persistStreamResult: after
\* runClaudeStreaming has returned, nothing is stored if an error was
\* reported; otherwise the next call of persistStreamResult is made.
Persist(t) ==
  /\ Returned(pc[t])
  /\ db.conversation[t] # <<>>
  /\ LET state == session[t].cb
         calls == IF state.result.error # NoError THEN <<>>
                  ELSE persistStreamResult(db.conversation[t][1], state)
         k == Len(db.calls[t]) + 1
     IN IF k > Len(calls)
        THEN /\ pc' = [pc EXCEPT ![t] = "responded"]
             /\ UNCHANGED db
        ELSE /\ db' = [DbCall(db, calls[k]) EXCEPT !.calls[t] = Append(@, calls[k])]
             /\ pc' = [pc EXCEPT ![t] = IF k = Len(calls) THEN "responded"
                                        ELSE "persisting"]
  /\ UNCHANGED <<conversationId, activeSessions, proc, buffer, timer, timedOut,
                 reader, session, handled, startLog, exitLog, cancelled,
                 evicted, stdout, response, rateLimitStore, now, requests>>

\* Lines 286-291: a call awaited by persistStreamResult throws; the catch
\* block logs it and writes an `error` event to the stream.
PersistFails(t) ==
  /\ Returned(pc[t])
  /\ db.conversation[t] # <<>>
  /\ session[t].cb.result.error = NoError
  /\ Len(db.calls[t]) <
       Len(persistStreamResult(db.conversation[t][1], session[t].cb))
  /\ session' = [session EXCEPT ![t].cb =
       writeSSEEvent(@, "error", <<"Failed to store response">>)]
  /\ pc' = [pc EXCEPT ![t] = "responded"]
  /\ UNCHANGED <<conversationId, activeSessions, proc, buffer, timer, timedOut,
                 reader, handled, startLog, exitLog, cancelled, evicted,
                 stdout, response, db, rateLimitStore, now, requests>>

\* ------------------------------------------------ middleware: the rate limiter
\* Map.get / Map.set / Map.delete on rateLimitStore; NoEntry is `undefined`.
NoEntry == <<>>

StoreGet(store, key) == IF key \in DOMAIN store THEN <<store[key]>> ELSE NoEntry

StoreSet(store, key, entry) ==
  [k \in DOMAIN store \cup {key} |-> IF k = key THEN entry ELSE store[k]]

StoreDelete(store, keys) == [k \in DOMAIN store \ keys |-> store[k]]

\* Lines 89-102: the three pre-configured limiters.
standardRateLimit == [name |-> "standard", windowMs |-> 60 * 1000, maxRequests |-> 30]
claudeRateLimit == [name |-> "claude", windowMs |-> 60 * 1000, maxRequests |-> 10]
authRateLimit == [name |-> "auth", windowMs |-> 15 * 60 * 1000, maxRequests |-> 10]

\* app.ts lines 66-78: the limiter mounted on a path.
Routes == {"/auth/login", "/chat", "/chat/stream", "/chat/c1/stream"}

Limiter(route) ==
  CASE route = "/auth/login" -> authRateLimit
    [] route = "/chat" -> standardRateLimit
    [] OTHER -> claudeRateLimit

\* Line 47 with no keyGenerator: `userId || ip`.  authMiddleware, which sets
\* userId, is mounted on /chat/* only, so an /auth request has none.
Key(route, user, ip) == IF route = "/auth/login" THEN ip ELSE user

\* Faulty variant of rateLimit: one request too many is admitted.
rateLimitOffByOne(config, store, key, t) ==
  LET entry == StoreGet(store, key)
  IN IF entry = NoEntry \/ entry[1].resetAt < t
     THEN [store |-> StoreSet(store, key, [count |-> 1, resetAt |-> t + config.windowMs]),
           status |-> 200]
     ELSE IF entry[1].count > config.maxRequests
          THEN [store |-> store, status |-> 429]
          ELSE [store |-> StoreSet(store, key, [entry[1] EXCEPT !.count = @ + 1]),
                status |-> 200]

\* Lines 49-84 of the middleware: the store afterwards, and whether the
\* request is passed on (200) or answered with 429.
rateLimit(config, store, key, t) ==
  LET entry == StoreGet(store, key)
  IN IF entry = NoEntry \/ entry[1].resetAt < t
     THEN [store |-> StoreSet(store, key, [count |-> 1, resetAt |-> t + config.windowMs]),
           status |-> 200]
     ELSE IF entry[1].count >= config.maxRequests
          THEN [store |-> store, status |-> 429]
          ELSE [store |-> StoreSet(store, key, [entry[1] EXCEPT !.count = @ + 1]),
                status |-> 200]

\* The requests of one user through one limiter, counted apart from all
\* others in windows of that limiter's length: how many were made in the
\* current window before time t.  They are counted up to the limiter's
\* maxRequests, and a window that has ended is forgotten.
MadeInWindow(made, who, t) ==
  IF who \in DOMAIN made /\ made[who].resetAt >= t THEN made[who].count ELSE 0

Min(a, b) == IF a <= b THEN a ELSE b

Record(made, who, config, t) ==
  StoreSet(made, who,
           IF MadeInWindow(made, who, t) = 0
           THEN [count |-> 1, resetAt |-> t + config.windowMs]
           ELSE [made[who] EXCEPT !.count = Min(@ + 1, config.maxRequests)])

Forget(made, t) == StoreDelete(made, {w \in DOMAIN made : made[w].resetAt < t})

\* One request of a user, from that user's address, to a route.
Request(user, ip, route) ==
  LET config == Limiter(route)
      r == rateLimit(config, rateLimitStore, Key(route, user, ip), now)
      who == <<user, config.name>>
  IN /\ rateLimitStore' = r.store
     /\ requests' = [made |-> Record(requests.made, who, config, now),
                     last |-> <<[user |-> user, limiter |-> config.name,
                                 status |-> r.status,
                                 made |-> MadeInWindow(requests.made, who, now)]>>]
     /\ UNCHANGED <<pc, conversationId, activeSessions, proc, buffer, timer,
                    timedOut, reader, session, handled, startLog, exitLog,
                    cancelled, evicted, stdout, response, db, now>>

\* Lines 14-21: the cleanup interval deletes the expired entries.
Cleanup ==
  /\ \E k \in DOMAIN rateLimitStore : rateLimitStore[k].resetAt < now
  /\ rateLimitStore' =
       StoreDelete(rateLimitStore,
                   {k \in DOMAIN rateLimitStore : rateLimitStore[k].resetAt < now})
  /\ UNCHANGED <<pc, conversationId, activeSessions, proc, buffer, timer,
                 timedOut, reader, session, handled, startLog, exitLog,
                 cancelled, evicted, stdout, response, db, now, requests>>

\* Date.now() advances.
Tick(ms) ==
  /\ now' = now + ms
  /\ requests' = [requests EXCEPT !.made = Forget(@, now')]
  /\ UNCHANGED <<pc, conversationId, activeSessions, proc, buffer, timer,
                 timedOut, reader, session, handled, startLog, exitLog,
                 cancelled, evicted, stdout, response, db, rateLimitStore>>

\* ------------------------------------------------------------ specifications
\* Sequences over S of length 0..n.
RECURSIVE SeqsUpTo(_, _)
SeqsUpTo(S, n) ==
  IF n = 0 THEN {<<>>}
  ELSE LET shorter == SeqsUpTo(S, n - 1)
       IN shorter \cup {Append(q, x) : q \in shorter, x \in S}

Chunks(S) == SeqsUpTo(S, MaxChunk)

IsPrefix(p, q) == Len(p) <= Len(q) /\ SubSeq(q, 1, Len(p)) = p

\* The lifecycle specification: MaxTurns calls on the conversations of Convs
\* (which are interchangeable, so the first call is on c1).  A process writes a
\* prefix of one of LifeScripts, in complete lines, and exits with code 0
\* unless it is killed.
LifeScripts == { <<ResultOk(<<>>, <<>>)>> }
LifeLines == {q[i] : q \in LifeScripts, i \in 1..1}
LifeExitCodes == {0}

LifeRead(t) ==
  \E lines \in Chunks(LifeLines) :
    /\ \E q \in LifeScripts : IsPrefix(handled[t] \o lines, q)
    /\ ReadChunk(t, lines, NoLine)

Init == InitFor(Turns, Convs)

Next ==
  \/ \E t \in Turns, c \in Convs, w \in BOOLEAN :
       (t = 1 => c = "c1") /\ RunClaudeStreaming(t, c, Null, w)
  \/ \E t \in Turns, code \in LifeExitCodes : ProcExit(t, code)
  \/ \E t \in Turns : TimeoutFires(t)
  \/ \E t \in Turns : LifeRead(t)
  \/ \E t \in Turns : ReadDone(t)
  \/ \E t \in Turns : ReadError(t)
  \/ \E t \in Turns : AwaitExit(t)
  \/ \E c \in Convs : cancelStream(c)

Spec == Init /\ [][Next]_vars

\* The same with one more call, all calls on one conversation.
MoreTurns == 1..(MaxTurns + 1)
OneConv == {"c1"}

MoreInit == InitFor(MoreTurns, OneConv)

MoreNext ==
  \/ \E t \in MoreTurns, w \in BOOLEAN : RunClaudeStreaming(t, "c1", Null, w)
  \/ \E t \in MoreTurns, code \in LifeExitCodes : ProcExit(t, code)
  \/ \E t \in MoreTurns : TimeoutFires(t)
  \/ \E t \in MoreTurns : LifeRead(t)
  \/ \E t \in MoreTurns : ReadDone(t)
  \/ \E t \in MoreTurns : ReadError(t)
  \/ \E t \in MoreTurns : AwaitExit(t)
  \/ cancelStream("c1")

MoreSpec == MoreInit /\ [][MoreNext]_vars

\* The single-turn specification: one call, whose process writes any sequence
\* of at most MaxSegOut lines of SegLines, the last one possibly without its
\* newline, and exits with any code, within the time limit and without a
\* failing read.
SegTexts == {<<"a">>, <<"b">>, <<" ">>}
SegLines ==
  {Assistant(<<TextBlock(x)>>) : x \in SegTexts}
  \cup {Assistant(<<ToolUseBlock("Bash")>>),
        Assistant(<<TextBlock(<<"a">>), ToolUseBlock("Bash")>>),
        ResultOk(<<>>, <<>>), ResultError(<<"boom">>)}
SegTurns == {1}

SegRead(t) ==
  \E lines \in Chunks(SegLines), partial \in {NoLine} \cup SegLines :
    /\ Len(handled[t]) + Len(lines) + (IF partial = NoLine THEN 0 ELSE 1)
         <= MaxSegOut
    /\ ReadChunk(t, lines, partial)

SegInit == InitFor(SegTurns, OneConv)

SegNext ==
  \/ \E t \in SegTurns, w \in BOOLEAN : RunClaudeStreaming(t, "c1", Null, w)
  \/ \E t \in SegTurns, code \in {0, 1} : ProcExit(t, code)
  \/ \E t \in SegTurns : SegRead(t)
  \/ \E t \in SegTurns : ReadDone(t)
  \/ \E t \in SegTurns : AwaitExit(t)

SegSpec == SegInit /\ [][SegNext]_vars

\* The permission specification: one call, whose process writes one of
\* DenyScripts (some text and tool use, then a successful result carrying up
\* to MaxDenials permission denials), in chunks of complete lines, and exits
\* with code 0.  LsBash and LsBashAgain differ in tool_use_id only, LsWrite in
\* tool_name, LsBashIn and InLsBash in the order of the same two input entries.
LsInput == << <<"cmd", "ls">> >>
LsBash == PermissionDenial("Bash", "u1", LsInput)
LsBashAgain == PermissionDenial("Bash", "u2", LsInput)
LsWrite == PermissionDenial("Write", "u3", LsInput)
LsBashIn == PermissionDenial("Bash", "u4", << <<"cmd", "ls">>, <<"dir", "x">> >>)
InLsBash == PermissionDenial("Bash", "u5", << <<"dir", "x">>, <<"cmd", "ls">> >>)
Denials == {LsBash, LsBashAgain, LsWrite, LsBashIn, InLsBash}
DenialLists == SeqsUpTo(Denials, MaxDenials)

DenyPrefixes ==
  { <<>>,
    <<Assistant(<<TextBlock(<<"a">>)>>)>>,
    <<Assistant(<<TextBlock(<<" ">>)>>)>>,
    <<Assistant(<<ToolUseBlock("Bash")>>)>>,
    <<Assistant(<<TextBlock(<<"a">>), ToolUseBlock("Bash")>>)>> }
DenyScripts == {Append(p, ResultOk(<<>>, d)) : p \in DenyPrefixes, d \in DenialLists}
DenyTurns == {1}

DenyRead(t) ==
  \E q \in DenyScripts :
    /\ IsPrefix(handled[t], q)
    /\ \E n \in (Len(handled[t]) + 1)..Len(q) :
         /\ n - Len(handled[t]) <= MaxChunk
         /\ ReadChunk(t, SubSeq(q, Len(handled[t]) + 1, n), NoLine)

DenyInit == InitFor(DenyTurns, OneConv)

DenyNext ==
  \/ \E t \in DenyTurns, w \in BOOLEAN : RunClaudeStreaming(t, "c1", Null, w)
  \/ \E t \in DenyTurns, code \in LifeExitCodes : ProcExit(t, code)
  \/ \E t \in DenyTurns : DenyRead(t)
  \/ \E t \in DenyTurns : ReadDone(t)
  \/ \E t \in DenyTurns : AwaitExit(t)

DenySpec == DenyInit /\ [][DenyNext]_vars

\* The decoding specification: one call, whose process writes up to MaxLines
\* lines, each a message, a truncated message, white space or nothing, the
\* last one with or without its newline; the reads cut this output anywhere.
DecodeLineKinds ==
  { <<"{", "a", "}">>, <<"{", "b", "}">>, <<"{", "a">>, <<" ">>, <<>> }

RECURSIVE Join(_, _)
Join(lines, terminated) ==
  IF lines = <<>> THEN <<>>
  ELSE IF Len(lines) = 1
       THEN Head(lines) \o (IF terminated THEN <<NewLine>> ELSE <<>>)
       ELSE Head(lines) \o <<NewLine>> \o Join(Tail(lines), terminated)

DecodeOutputs ==
  {Join(lines, terminated) :
     lines \in SeqsUpTo(DecodeLineKinds, MaxLines), terminated \in BOOLEAN}
DecodeTurns == {1}

DecodeInit ==
  /\ StartState(DecodeTurns, OneConv)
  /\ buffer = [t \in DecodeTurns |-> <<>>]
  /\ stdout \in [DecodeTurns -> {[written |-> o, nread |-> 0] : o \in DecodeOutputs}]

DecodeNext ==
  \/ \E t \in DecodeTurns, w \in BOOLEAN : RunClaudeStreaming(t, "c1", Null, w)
  \/ \E t \in DecodeTurns, code \in LifeExitCodes : ProcExit(t, code)
  \/ \E t \in DecodeTurns : \E n \in 1..Len(stdout[t].written) : ReadBytes(t, n)
  \/ \E t \in DecodeTurns : ReadBytesDone(t)
  \/ \E t \in DecodeTurns : AwaitExit(t)

DecodeSpec == DecodeInit /\ [][DecodeNext]_vars

\* The command-output specification: one call, whose process writes one of
\* CmdScripts (possibly text and a tool use, then a user message, then
\* possibly text or a result), in chunks of complete lines, and exits with
\* code 0.  The user message's string content wraps o, or o between spaces, or
\* nothing in the <local-command-stdout> marker, or has no marker.
CmdOutputs == { Match(<<"o">>), Match(<<" ", "o", " ">>), Match(<<>>), NoMatch }
CmdPrefixes ==
  { <<>>,
    <<Assistant(<<ToolUseBlock("Bash")>>)>>,
    <<Assistant(<<TextBlock(<<"a">>), ToolUseBlock("Bash")>>)>> }
CmdSuffixes ==
  { <<>>, <<Assistant(<<TextBlock(<<"b">>)>>)>>, <<ResultOk(<<>>, <<>>)>> }
CmdScripts ==
  {p \o <<UserString(o)>> \o q : p \in CmdPrefixes, o \in CmdOutputs, q \in CmdSuffixes}
CmdLines == UNION {{q[i] : i \in 1..Len(q)} : q \in CmdScripts}
CmdTurns == {1}

CmdRead(t) ==
  \E q \in CmdScripts :
    /\ IsPrefix(handled[t], q)
    /\ \E n \in (Len(handled[t]) + 1)..Len(q) :
         /\ n - Len(handled[t]) <= MaxChunk
         /\ ReadChunk(t, SubSeq(q, Len(handled[t]) + 1, n), NoLine)

CmdInit == InitFor(CmdTurns, OneConv)

CmdNext ==
  \/ \E t \in CmdTurns, w \in BOOLEAN : RunClaudeStreaming(t, "c1", Null, w)
  \/ \E t \in CmdTurns, code \in LifeExitCodes : ProcExit(t, code)
  \/ \E t \in CmdTurns : CmdRead(t)
  \/ \E t \in CmdTurns : ReadDone(t)
  \/ \E t \in CmdTurns : AwaitExit(t)

CmdSpec == CmdInit /\ [][CmdNext]_vars

\* The fair specification: two calls on one conversation, with the scheduling
\* the runtime guarantees.  A pending setTimeout callback is run by the event
\* loop; a pending reader.read() settles once the process is gone; proc.exited
\* settles once the process is dead.  Nothing makes a process exit by itself,
\* write output, or makes a caller call.
FairTurns == {1, 2}

FairInit == InitFor(FairTurns, OneConv)

FairNext ==
  \/ \E t \in FairTurns, w \in BOOLEAN : RunClaudeStreaming(t, "c1", Null, w)
  \/ \E t \in FairTurns, code \in LifeExitCodes : ProcExit(t, code)
  \/ \E t \in FairTurns : TimeoutFires(t)
  \/ \E t \in FairTurns : LifeRead(t)
  \/ \E t \in FairTurns : ReadDone(t)
  \/ \E t \in FairTurns : ReadError(t)
  \/ \E t \in FairTurns : AwaitExit(t)
  \/ cancelStream("c1")

Fairness ==
  \A t \in FairTurns :
    /\ WF_vars(TimeoutFires(t))
    /\ WF_vars(ReadDone(t) \/ ReadError(t))
    /\ WF_vars(AwaitExit(t))

FairSpec == FairInit /\ [][FairNext]_vars /\ Fairness

\* The two-variant specification: call 1 is a runClaudeStreaming call, call 2
\* a runClaude call.  The process of call 2 writes a prefix of one of
\* PlainScripts, the last line possibly without its newline, and exits with
\* any code unless it is killed.
StreamTurns == {1}
PlainTurns == {2}
RunTurns == StreamTurns \cup PlainTurns
PlainScripts ==
  { <<SystemInit("s1"), Assistant(<<TextBlock(<<"a">>), ToolUseBlock("Bash")>>),
      Assistant(<<TextBlock(<<"b">>)>>), ResultOk(<<>>, <<>>)>>,
    <<Assistant(<<TextBlock(<<"a">>)>>), ResultError(<<"boom">>)>> }

PlainRead(t) ==
  \E q \in PlainScripts :
    /\ IsPrefix(handled[t], q)
    /\ \E n \in Len(handled[t])..Len(q), partial \in BOOLEAN :
         /\ n - Len(handled[t]) <= MaxChunk
         /\ partial => n < Len(q)
         /\ RunClaudeRead(t, SubSeq(q, Len(handled[t]) + 1, n),
                          IF partial THEN q[n + 1] ELSE NoLine)

RunInit == InitFor(RunTurns, OneConv)

RunNext ==
  \/ \E t \in StreamTurns, w \in BOOLEAN : RunClaudeStreaming(t, "c1", Null, w)
  \/ \E t \in StreamTurns : TimeoutFires(t)
  \/ \E t \in StreamTurns : LifeRead(t)
  \/ \E t \in StreamTurns : ReadDone(t)
  \/ \E t \in StreamTurns : ReadError(t)
  \/ \E t \in StreamTurns : AwaitExit(t)
  \/ \E t \in RunTurns, code \in {0, 1} : ProcExit(t, code)
  \/ \E t \in PlainTurns : RunClaude(t)
  \/ \E t \in PlainTurns : RunClaudeTimeoutFires(t)
  \/ \E t \in PlainTurns : PlainRead(t)
  \/ \E t \in PlainTurns : RunClaudeReadDone(t)
  \/ \E t \in PlainTurns : RunClaudeReadError(t)
  \/ \E t \in PlainTurns : RunClaudeExited(t)

RunSpec == RunInit /\ [][RunNext]_vars

\* The persistence specification: two POST /chat/:id/stream requests for one
\* conversation, each with its own run of the CLI, which writes a prefix of
\* one of PersistScripts; the conversation may be cancelled at any time.
PersistTurns == {1, 2}
PersistScripts ==
  { <<SystemInit("s1"), Assistant(<<TextBlock(<<"a">>)>>), ResultOk(<<>>, <<>>)>>,
    <<SystemInit("s2"), ResultOk(<<>>, <<>>)>> }
PersistLines == UNION {{q[i] : i \in 1..Len(q)} : q \in PersistScripts}

PersistRead(t) ==
  \E lines \in Chunks(PersistLines) :
    /\ \E q \in PersistScripts : IsPrefix(handled[t] \o lines, q)
    /\ ReadChunk(t, lines, NoLine)

PersistInit == InitFor(PersistTurns, OneConv)

PersistNext ==
  \/ \E t \in PersistTurns : PostStream(t, "c1")
  \/ \E t \in PersistTurns, w \in BOOLEAN : handleStreamingResponse(t, w)
  \/ \E t \in PersistTurns : ProcExit(t, 0)
  \/ \E t \in PersistTurns : TimeoutFires(t)
  \/ \E t \in PersistTurns : PersistRead(t)
  \/ \E t \in PersistTurns : ReadDone(t)
  \/ \E t \in PersistTurns : ReadError(t)
  \/ \E t \in PersistTurns : AwaitExit(t)
  \/ \E t \in PersistTurns : Persist(t)
  \/ cancelStream("c1")

PersistSpec == PersistInit /\ [][PersistNext]_vars

\* The storing specification: one POST /chat/:id/stream request, whose CLI
\* writes a prefix of one of StoreScripts and exits with any code unless it
\* is killed; the database may fail at any call.
StoreTurns == {1}
StoreScripts ==
  { <<Assistant(<<TextBlock(<<"a">>)>>), Assistant(<<ToolUseBlock("Bash")>>),
      Assistant(<<TextBlock(<<"b">>)>>), ResultOk(<<>>, <<>>)>>,
    <<Assistant(<<TextBlock(<<"a">>), ToolUseBlock("Bash")>>),
      Assistant(<<TextBlock(<<" ">>)>>), ResultOk(<<>>, <<>>)>>,
    <<Assistant(<<TextBlock(<<" ">>)>>),
      Assistant(<<TextBlock(<<"a">>), ToolUseBlock("Bash")>>),
      ResultOk(<<>>, <<LsBash>>)>>,
    <<Assistant(<<TextBlock(<<"a">>), ToolUseBlock("Bash")>>),
      ResultError(<<"boom">>)>>,
    <<SystemInit("s1"), ResultOk(<<>>, <<>>)>> }

StoreRead(t) ==
  \E q \in StoreScripts :
    /\ IsPrefix(handled[t], q)
    /\ \E n \in (Len(handled[t]) + 1)..Len(q) :
         /\ n - Len(handled[t]) <= MaxChunk
         /\ ReadChunk(t, SubSeq(q, Len(handled[t]) + 1, n), NoLine)

StoreInit == InitFor(StoreTurns, OneConv)

StoreNext ==
  \/ \E t \in StoreTurns : PostStream(t, "c1")
  \/ \E t \in StoreTurns, w \in BOOLEAN : handleStreamingResponse(t, w)
  \/ \E t \in StoreTurns, code \in {0, 1} : ProcExit(t, code)
  \/ \E t \in StoreTurns : TimeoutFires(t)
  \/ \E t \in StoreTurns : StoreRead(t)
  \/ \E t \in StoreTurns : ReadDone(t)
  \/ \E t \in StoreTurns : ReadError(t)
  \/ \E t \in StoreTurns : AwaitExit(t)
  \/ \E t \in StoreTurns : Persist(t)
  \/ \E t \in StoreTurns : PersistFails(t)

StoreSpec == StoreInit /\ [][StoreNext]_vars

\* The session-id specification: one POST /chat/:id/stream request for a
\* conversation that has a resume token or none; the CLI writes up to two
\* system events of SysLines and then a successful result.
SessTurns == {1}
SessTokens == {Null, "s0"}
SysLines ==
  { SystemInit("s1"), SystemInit("s2"), SystemInit(Null), SystemInit(""),
    StreamMessage("system", "status", "s3", <<>>, <<>>, FALSE, <<>>, NoMatch) }
SessScripts ==
  {Append(p, ResultOk(<<>>, <<>>)) :
     p \in {<<>>} \cup {<<x>> : x \in SysLines} \cup (SysLines \X SysLines)}

SessRead(t) ==
  \E q \in SessScripts :
    /\ IsPrefix(handled[t], q)
    /\ \E n \in (Len(handled[t]) + 1)..Len(q) :
         /\ n - Len(handled[t]) <= MaxChunk
         /\ ReadChunk(t, SubSeq(q, Len(handled[t]) + 1, n), NoLine)

SessInit ==
  \E token \in SessTokens :
    /\ StartStateWith(SessTurns, OneConv,
                      [NewDb(SessTurns, OneConv) EXCEPT !.claudeSessionId["c1"] = token])
    /\ buffer = [t \in SessTurns |-> NoLine]
    /\ stdout = [t \in SessTurns |-> NoOutput]

SessNext ==
  \/ \E t \in SessTurns : PostStream(t, "c1")
  \/ \E t \in SessTurns : handleStreamingResponse(t, FALSE)
  \/ \E t \in SessTurns : ProcExit(t, 0)
  \/ \E t \in SessTurns : SessRead(t)
  \/ \E t \in SessTurns : ReadDone(t)
  \/ \E t \in SessTurns : AwaitExit(t)

SessSpec == SessInit /\ [][SessNext]_vars

\* The same-output specification: call 1 is a runClaudeStreaming call, call 2
\* a runClaude call; each process writes a prefix of one of SameScripts, the
\* last line with or without its newline, and exits with code 0.
SameScripts ==
  { <<Assistant(<<TextBlock(<<"a">>)>>),
      Assistant(<<TextBlock(<<"b">>), ToolUseBlock("Bash")>>),
      ResultOk(<<>>, <<>>)>>,
    <<Assistant(<<ToolUseBlock("Bash")>>), UserString(Match(<<" ", "o", " ">>)),
      Assistant(<<TextBlock(<<"b">>)>>)>> }

SameRead(t) ==
  \E q \in SameScripts :
    /\ IsPrefix(handled[t], q)
    /\ \E n \in Len(handled[t])..Len(q), partial \in BOOLEAN :
         /\ n - Len(handled[t]) <= MaxChunk
         /\ partial => n < Len(q)
         /\ LET lines == SubSeq(q, Len(handled[t]) + 1, n)
                last == IF partial THEN q[n + 1] ELSE NoLine
            IN IF t \in StreamTurns THEN ReadChunk(t, lines, last)
               ELSE RunClaudeRead(t, lines, last)

SameInit == InitFor(RunTurns, OneConv)

SameNext ==
  \/ \E t \in StreamTurns : RunClaudeStreaming(t, "c1", Null, FALSE)
  \/ \E t \in StreamTurns : ReadDone(t)
  \/ \E t \in StreamTurns : AwaitExit(t)
  \/ \E t \in PlainTurns : RunClaude(t)
  \/ \E t \in PlainTurns : RunClaudeReadDone(t)
  \/ \E t \in PlainTurns : RunClaudeExited(t)
  \/ \E t \in RunTurns : ProcExit(t, 0)
  \/ \E t \in RunTurns : SameRead(t)

SameSpec == SameInit /\ [][SameNext]_vars

\* The ignored-event specification: one call whose CLI writes a prefix of
\* one of IgnScripts: a beginning that leaves a segment or a tool pending,
\* then events of IgnLines, then possibly the result.
IgnTurns == {1}
IgnLines ==
  { StreamMessage("ping", Null, "s3", <<TextBlock(<<"x">>)>>, <<"x">>, FALSE, <<>>, NoMatch),
    StreamMessage("system", "status", "s3", <<>>, <<>>, FALSE, <<>>, NoMatch),
    SystemInit(Null),
    Assistant(<<TextBlock(<<>>)>>),
    Assistant(<<ToolUseBlock(Null)>>),
    Assistant(<<>>),
    UserString(NoMatch),
    UserString(Match(<<>>)) }
IgnPrefixes ==
  { <<>>,
    <<SystemInit("s1"), Assistant(<<TextBlock(<<"a">>)>>)>>,
    <<Assistant(<<TextBlock(<<"a">>), ToolUseBlock("Bash")>>)>>,
    <<Assistant(<<TextBlock(<<" ">>)>>), Assistant(<<ToolUseBlock("Bash")>>)>> }
IgnScripts ==
  {p \o m \o <<ResultOk(<<>>, <<>>)>> :
     p \in IgnPrefixes,
     m \in {<<x>> : x \in IgnLines} \cup (IgnLines \X IgnLines)}

IgnRead(t) ==
  \E q \in IgnScripts :
    /\ IsPrefix(handled[t], q)
    /\ \E n \in (Len(handled[t]) + 1)..Len(q) :
         /\ n - Len(handled[t]) <= MaxChunk
         /\ ReadChunk(t, SubSeq(q, Len(handled[t]) + 1, n), NoLine)

IgnInit == InitFor(IgnTurns, OneConv)

IgnNext ==
  \/ \E t \in IgnTurns : RunClaudeStreaming(t, "c1", Null, FALSE)
  \/ \E t \in IgnTurns : ProcExit(t, 0)
  \/ \E t \in IgnTurns : IgnRead(t)
  \/ \E t \in IgnTurns : ReadDone(t)
  \/ \E t \in IgnTurns : AwaitExit(t)

IgnSpec == IgnInit /\ [][IgnNext]_vars

\* The rate-limit specification: any number of requests of a user, from that
\* user's address, while the clock advances MaxTicks times by TickMs.
RateUsers == {"u1"}
Ip(user) == "ip1"
RateInit == InitFor({1}, OneConv)

RateNext ==
  \/ \E user \in RateUsers, route \in Routes :
       Request(user, Ip(user), route)
  \/ now < MaxTicks * TickMs /\ Tick(TickMs)
  \/ Cleanup

RateSpec == RateInit /\ [][RateNext]_vars

\* The window specification: three clients, each using one limiter under a
\* key of its own, while the clock advances MaxTicks times by TickMs.
WindowClients ==
  { <<"u1", "/chat/stream">>, <<"u2", "/chat">>, <<"u3", "/auth/login">> }

WindowInit == InitFor({1}, OneConv)

WindowNext ==
  \/ \E client \in WindowClients : Request(client[1], Ip(client[1]), client[2])
  \/ now < MaxTicks * TickMs /\ Tick(TickMs)
  \/ Cleanup

WindowSpec == WindowInit /\ [][WindowNext]_vars

\* ------------------------------------------- db: timestamps and pagination
\* A timestamp string as <<seconds, milliseconds>>; a string without the
\* ".mmm" part has -1 there, because a string that is a prefix of another
\* sorts before it.
formatSqliteTimestamp(ms) == <<ms \div 1000, ms % 1000>>

\* SQLite's datetime('now'): "YYYY-MM-DD HH:MM:SS".
datetimeNow(ms) == <<ms \div 1000, -1>>

\* `a < b` on two timestamp strings (SQLite compares TEXT bytewise).
Before(a, b) == a[1] < b[1] \/ (a[1] = b[1] /\ a[2] < b[2])

DEFAULT_PAGE_SIZE == 20

DefaultMessagePageSize == 50

\* options.limit and options.cursor when the query string has none.
NoLimit == 0

NoCursor == <<>>

\* The tables `conversations` and `messages`, rows in order of insertion.
NewTables == [conversations |-> <<>>, messages |-> <<>>]

Rows(table) == {table[i] : i \in 1..Len(table)}

\* ORDER BY col DESC: every order of the rows in which col never increases
\* (SQL leaves the order of rows with equal col open).
OrderByDesc(S, col) ==
  {q \in [1..Cardinality(S) -> S] :
     /\ \A i, j \in 1..Cardinality(S) : i # j => q[i] # q[j]
     /\ \A i \in 1..(Cardinality(S) - 1) : ~Before(q[i][col], q[i + 1][col])}

\* LIMIT n and rows.slice(0, n).
Take(q, n) == SubSeq(q, 1, Min(Len(q), n))

Reverse(q) == [i \in 1..Len(q) |-> q[Len(q) + 1 - i]]

\* `AND updated_at < ?` / `AND created_at < ?`, present when options.cursor is.
CursorFilter(stamp, options) ==
  options.cursor # NoCursor => Before(stamp, options.cursor[1])

\* getConversations: the results the query can produce.
getConversations(tables, userId, options) ==
  LET limit == IF options.limit # NoLimit THEN options.limit ELSE DEFAULT_PAGE_SIZE
      matching == {r \in Rows(tables.conversations) :
                     r.user_id = userId /\ CursorFilter(r.updated_at, options)}
  IN { LET rows == Take(q, limit + 1)
           hasMore == Len(rows) > limit
           items == Take(rows, limit)
       IN [items |-> items, hasMore |-> hasMore,
           nextCursor |-> IF hasMore /\ items # <<>>
                          THEN <<items[Len(items)].updated_at>> ELSE NoCursor]
       : q \in OrderByDesc(matching, "updated_at") }

\* getMessages: the results the query can produce, each page oldest first.
getMessages(tables, convId, options) ==
  LET limit == IF options.limit # NoLimit THEN options.limit ELSE DefaultMessagePageSize
      matching == {r \in Rows(tables.messages) :
                     r.conversation_id = convId
                     /\ CursorFilter(r.created_at, options)}
  IN { LET rows == Take(q, limit + 1)
           hasMore == Len(rows) > limit
           items == Reverse(Take(rows, limit))
       IN [items |-> items, hasMore |-> hasMore,
           nextCursor |-> IF hasMore /\ items # <<>>
                          THEN <<items[1].created_at>> ELSE NoCursor]
       : q \in OrderByDesc(matching, "created_at") }

\* createConversation: INSERT with the column default datetime('now').
createConversation(c, user) ==
  /\ \A r \in Rows(db.conversations) : r.id # c
  /\ db' = [db EXCEPT !.conversations =
              Append(@, [id |-> c, user_id |-> user, updated_at |-> datetimeNow(now)])]
  /\ UNCHANGED <<pc, conversationId, activeSessions, proc, buffer, timer,
                 timedOut, reader, session, handled, startLog, exitLog,
                 cancelled, evicted, stdout, response, rateLimitStore, now,
                 requests>>

\* createMessage: the message row and the conversation's updated_at get the
\* same formatted `new Date()`, in one transaction.
createMessage(c) ==
  /\ \E r \in Rows(db.conversations) : r.id = c
  /\ LET stamp == formatSqliteTimestamp(now)
     IN db' = [db EXCEPT
          !.messages = Append(@, [id |-> Len(@) + 1, conversation_id |-> c,
                                  created_at |-> stamp]),
          !.conversations = [i \in 1..Len(@) |->
                               IF @[i].id = c THEN [@[i] EXCEPT !.updated_at = stamp]
                               ELSE @[i]]]
  /\ UNCHANGED <<pc, conversationId, activeSessions, proc, buffer, timer,
                 timedOut, reader, session, handled, startLog, exitLog,
                 cancelled, evicted, stdout, response, rateLimitStore, now,
                 requests>>

\* updateClaudeSessionId and updateConversationTitle, as far as the list
\* order goes: updated_at = datetime('now').
updateConversation(c) ==
  /\ \E r \in Rows(db.conversations) : r.id = c
  /\ db' = [db EXCEPT !.conversations =
              [i \in 1..Len(@) |->
                 IF @[i].id = c THEN [@[i] EXCEPT !.updated_at = datetimeNow(now)]
                 ELSE @[i]]]
  /\ UNCHANGED <<pc, conversationId, activeSessions, proc, buffer, timer,
                 timedOut, reader, session, handled, startLog, exitLog,
                 cancelled, evicted, stdout, response, rateLimitStore, now,
                 requests>>

\* A client's request for one page and what it keeps of the response: the
\* pages put together, the cursor and hasMore (GET /chat and GET /chat/:id).
\* The first request has no cursor, a later one the nextCursor it was given.
Page(query, owner, options) ==
  IF query = "getMessages" THEN getMessages(db, owner, options)
  ELSE getConversations(db, owner, options)

Loaded(query, loaded, items) ==
  IF query = "getMessages" THEN items \o loaded ELSE loaded \o items

FirstPage(t, query, owner, limit) ==
  /\ pc[t] = "new"
  /\ \E page \in Page(query, owner, [limit |-> limit, cursor |-> NoCursor]) :
       /\ response' = [response EXCEPT ![t] =
            [query |-> query, owner |-> owner, limit |-> limit,
             loaded |-> page.items, hasMore |-> page.hasMore,
             nextCursor |-> page.nextCursor, pages |-> 1]]
       /\ pc' = [pc EXCEPT ![t] = IF page.hasMore THEN "paging" ELSE "loaded"]
  /\ UNCHANGED <<conversationId, activeSessions, proc, buffer, timer,
                 timedOut, reader, session, handled, startLog, exitLog,
                 cancelled, evicted, stdout, db, rateLimitStore, now, requests>>

NextPage(t) ==
  /\ pc[t] = "paging"
  /\ response[t].nextCursor # NoCursor
  /\ LET r == response[t]
     IN \E page \in Page(r.query, r.owner,
                         [limit |-> r.limit, cursor |-> r.nextCursor]) :
          /\ response' = [response EXCEPT ![t] =
               [r EXCEPT !.loaded = Loaded(r.query, @, page.items),
                         !.hasMore = page.hasMore,
                         !.nextCursor = page.nextCursor,
                         !.pages = @ + 1]]
          /\ pc' = [pc EXCEPT ![t] = IF page.hasMore THEN "paging" ELSE "loaded"]
  /\ UNCHANGED <<conversationId, activeSessions, proc, buffer, timer,
                 timedOut, reader, session, handled, startLog, exitLog,
                 cancelled, evicted, stdout, db, rateLimitStore, now, requests>>

\* The pagination specification: up to MaxRows messages and the
\* conversations of PageOwners are stored while the clock advances, then one
\* client pages through the messages of a conversation or the conversations
\* of a user, with the limit of its choice; the rows stay as they are while
\* it does.
MaxRows == 3

MaxLimit == 2

PageTurns == {1}

PageOwners == [c1 |-> "u1", c2 |-> "u1", c3 |-> "u2"]

PageInit ==
  /\ StartStateWith(PageTurns, OneConv, NewTables)
  /\ buffer = [t \in PageTurns |-> NoLine]
  /\ stdout = [t \in PageTurns |-> NoOutput]

Storing == \A t \in PageTurns : pc[t] = "new"

PageNext ==
  \/ Storing /\ \E c \in DOMAIN PageOwners : createConversation(c, PageOwners[c])
  \/ Storing /\ Len(db.messages) < MaxRows
       /\ \E c \in DOMAIN PageOwners : createMessage(c)
  \/ Storing /\ \E c \in DOMAIN PageOwners : updateConversation(c)
  \/ Storing /\ now < MaxTicks * TickMs /\ Tick(TickMs)
  \/ \E t \in PageTurns, limit \in {NoLimit} \cup 1..MaxLimit :
       \/ \E c \in DOMAIN PageOwners : FirstPage(t, "getMessages", c, limit)
       \/ \E c \in DOMAIN PageOwners :
            FirstPage(t, "getConversations", PageOwners[c], limit)
  \/ \E t \in PageTurns : NextPage(t)

PageSpec == PageInit /\ [][PageNext]_vars

\* ------------------------------------------------------------ vocabulary
AllTurns == DOMAIN pc
AllConvs == DOMAIN activeSessions

\* The call has left its read loop (or never entered it) and released what it held.
Concluded(t) == pc[t] \in {"awaitExit", "done"}

\* A spawned process that has neither been killed nor exited.
LiveProcess(t) == proc[t] = "running"

CallNames(t) == [i \in 1..Len(session[t].cb.calls) |-> session[t].cb.calls[i][1]]

Count(names, S) == Cardinality({i \in 1..Len(names) : names[i] \in S})

TerminalCalls(t) == Count(CallNames(t), {"onComplete", "onError"})

IsCleanupOp(op) == op[1] \in {"clearTimeout", "releaseLock", "delete"}

\* The cleanup operations of the call's exit path, by name, in order.
CleanupNames(t) ==
  LET ops == SelectSeq(exitLog[t], IsCleanupOp)
  IN [i \in 1..Len(ops) |-> ops[i][1]]

\* ------------------------------------------------------------------ claims

\* C1: at most one process that was spawned and has neither been killed nor
\* exited exists per conversation at any instant.
C1_AtMostOneLiveProcess ==
  \A c \in AllConvs :
    Cardinality({t \in AllTurns : conversationId[t] = c /\ LiveProcess(t)}) <= 1

\* C2: every turn invokes at most one terminal callback (onComplete or onError).
C2_AtMostOneTerminalCallback ==
  \A t \in AllTurns : TerminalCalls(t) <= 1

\* C3 (as stated): on every exit path, write failure included, the cleanup is
\* clearTimeout, then releaseLock, then the registry removal, once each.
C3_CleanupOnEveryExitPath ==
  \A t \in AllTurns :
    Concluded(t) => CleanupNames(t) = <<"clearTimeout", "releaseLock", "delete">>

\* C3 (amended): a turn that leaves its read loop (end of output, read error,
\* with or without a timeout) runs clearTimeout, releaseLock and the registry
\* removal once each in this order; a turn whose stdin write failed runs
\* clearTimeout and then the registry removal and releases no reader lock, since
\* it never took one.  Afterwards the turn's timer is not pending, its reader
\* is not locked and the registry does not hold its session.
C3_CleanupOnExit ==
  \A t \in AllTurns :
    Concluded(t) =>
      /\ IF reader[t] = "none"
         THEN CleanupNames(t) = <<"clearTimeout", "delete">>
         ELSE /\ CleanupNames(t) = <<"clearTimeout", "releaseLock", "delete">>
              /\ reader[t] = "released"
      /\ timer[t] # "pending"
      /\ activeSessions[conversationId[t]] # t

C3_Witness ==
  \E t, u \in AllTurns :
    /\ pc[t] = "done" /\ reader[t] = "none"
    /\ pc[u] = "done" /\ reader[u] = "released" /\ timedOut[u]

\* C4: a runClaudeStreaming call that finds a registry entry for its
\* conversation cancels that entry's timeout, signals its process and removes
\* the entry, in this order, before it spawns the new process.
C4_EvictBeforeSpawn ==
  [][\A t \in AllTurns :
       (pc[t] = "new" /\ pc'[t] # "new"
          /\ activeSessions[conversationId'[t]] # NoTurn)
       => LET e == activeSessions[conversationId'[t]]
          IN /\ timer'[e] # "pending"
             /\ proc'[e] # "running"
             /\ activeSessions'[conversationId'[t]] # e
             /\ startLog'[t] = << <<"clearTimeout", e>>, <<"kill", e>>,
                                  <<"delete", e>>, <<"spawn", t>>,
                                  <<"setTimeout", t>>, <<"set", t>> >>]_vars

C4_Witness ==
  \E t, e \in AllTurns :
    /\ Len(startLog[t]) > 0 /\ startLog[t][1] = <<"clearTimeout", e>>
    /\ proc[e] = "killed" /\ timer[e] = "cancelled"
    /\ proc[t] = "running"

\* C5: a turn whose timeout fired invokes onError exactly once and never
\* onComplete, and its timer is not pending once it has concluded.
C5_TimeoutReportsOnce ==
  \A t \in AllTurns :
    (timedOut[t] /\ Concluded(t)) =>
      /\ Count(CallNames(t), {"onError"}) = 1
      /\ Count(CallNames(t), {"onComplete"}) = 0
      /\ timer[t] # "pending"

\* A turn of the conversation whose process was spawned, whose read loop has
\* not finished and which was neither cancelled nor evicted.
LiveTurn(t) == pc[t] = "reading" /\ t \notin cancelled /\ t \notin evicted

\* C6: cancelStream(c) returns true if and only if a turn of c is live; a
\* cancelled turn has no pending timer, no running process and no entry.
C6_CancelReturnsTrueIffLive ==
  /\ \A c \in AllConvs :
       cancelStreamReturns(c) <=> \E t \in AllTurns : conversationId[t] = c /\ LiveTurn(t)
  /\ \A t \in cancelled :
       /\ timer[t] # "pending"
       /\ ~LiveProcess(t)
       /\ activeSessions[conversationId[t]] # t

\* C7: once a turn has concluded and no newer turn of its conversation is
\* running, the registry holds no entry for the conversation and cancelStream
\* returns false.
NewerRunning(t) ==
  \E u \in AllTurns : u > t /\ conversationId[u] = conversationId[t] /\ pc[u] = "reading"

C7_NoEntryAfterTurn ==
  \A t \in AllTurns :
    (Concluded(t) /\ ~NewerRunning(t)) =>
      /\ activeSessions[conversationId[t]] = NoTurn
      /\ ~cancelStreamReturns(conversationId[t])

C7_Witness ==
  \E t, u \in AllTurns :
    /\ t < u /\ conversationId[t] = conversationId[u]
    /\ pc[t] = "done" /\ timedOut[t]
    /\ pc[u] = "done" /\ session[u].cb.result.error = NoError /\ Len(handled[u]) > 0
    /\ ~cancelStreamReturns(conversationId[t])

\* C8: after cancelStream returned true for a turn, none of its callbacks is
\* invoked any more.
C8_NoCallbackAfterCancel ==
  [][\A t \in AllTurns :
       t \in cancelled => session'[t].cb.calls = session[t].cb.calls]_vars

StartsWithText(m) ==
  /\ m.type = "assistant"
  /\ Len(m.content) >= 1
  /\ m.content[1].type = "text"
  /\ m.content[1].text # <<>>

\* C9: an assistant text block that arrives while a tool is pending invokes
\* onToolEnd(pendingTool), then onChunk(text), and clears the pending tool; and
\* every onToolEnd is at once followed by the onChunk or terminal callback of
\* the text or result event that caused it.
C9_TextEndsPendingTool ==
  /\ [][\A t \in AllTurns, m \in SegLines :
          (/\ StartsWithText(m)
           /\ handled'[t] = Append(handled[t], m)
           /\ session[t].s.lastToolName # Null)
          => LET expected ==
                   session[t].cb.calls \o
                     << <<"onToolEnd", <<session[t].s.lastToolName>>>>,
                        <<"onChunk", m.content[1].text>> >>
             IN /\ IsPrefix(expected, session'[t].cb.calls)
                /\ Len(m.content) = 1
                   => /\ session'[t].cb.calls = expected
                      /\ session'[t].s.lastToolName = Null]_vars
  /\ [](\A t \in AllTurns : \A i \in 1..Len(CallNames(t)) :
          CallNames(t)[i] = "onToolEnd"
          => /\ i < Len(CallNames(t))
             /\ CallNames(t)[i + 1] \in {"onChunk", "onComplete", "onError"})

C9_Witness ==
  \E t \in AllTurns : \E i \in 1..Len(session[t].cb.calls) :
    /\ i > 1 /\ i < Len(session[t].cb.calls)
    /\ session[t].cb.calls[i - 1] = <<"onToolStart", <<"Bash">>>>
    /\ session[t].cb.calls[i] = <<"onToolEnd", <<"Bash">>>>
    /\ session[t].cb.calls[i + 1] = <<"onChunk", <<"b">>>>
    /\ session[t].s.lastToolName = Null

NonBlank(x) == Trim(x) # <<>>

TextToolTextSuccess(a, b) ==
  << <<"TextDelta", a>>, <<"ToolInvoked", <<"Bash">>>>, <<"TextDelta", b>>,
     <<"TurnSucceeded", <<>>>> >>

\* C10 (as stated): for TextDelta(a), ToolInvoked(T), TextDelta(b),
\* TurnSucceeded the callbacks are chunk(a), segment_end(a), tool_start(T),
\* tool_end(T), chunk(b), segment_end(b), complete.
C10_OrderWithFinalSegmentEnd ==
  \A t \in AllTurns : \A a, b \in SegTexts :
    Signals(handled[t]) = TextToolTextSuccess(a, b)
    => session[t].cb.calls =
         << <<"onChunk", a>>, <<"onSegmentEnd", a>>, <<"onToolStart", <<"Bash">>>>,
            <<"onToolEnd", <<"Bash">>>>, <<"onChunk", b>>, <<"onSegmentEnd", b>>,
            <<"onComplete", <<Null>>>> >>

\* C10 (amended): for TextDelta(a), ToolInvoked(T), TextDelta(b), TurnSucceeded
\* with a not blank and b not empty the callbacks are chunk(a), segment_end(a),
\* tool_start(T), tool_end(T), chunk(b), then complete, with no segment_end(b);
\* tool_end(T) has not fired when only TextDelta(a), ToolInvoked(T) have arrived.
C10_CallbackOrder ==
  \A t \in AllTurns : \A a, b \in SegTexts :
    NonBlank(a) =>
      /\ Signals(handled[t]) = TextToolTextSuccess(a, b)
         => /\ session[t].cb.calls =
                 << <<"onChunk", a>>, <<"onSegmentEnd", a>>,
                    <<"onToolStart", <<"Bash">>>>, <<"onToolEnd", <<"Bash">>>>,
                    <<"onChunk", b>>, <<"onComplete", <<Null>>>> >>
            /\ session[t].cb.sse =
                 << <<"chunk", a>>, <<"segment_end", a>>, <<"tool_start", <<"Bash">>>>,
                    <<"tool_end", <<"Bash">>>>, <<"chunk", b>>, <<"complete", <<>>>> >>
      /\ Signals(handled[t]) = SubSeq(TextToolTextSuccess(a, b), 1, 2)
         => session[t].cb.calls =
              << <<"onChunk", a>>, <<"onSegmentEnd", a>>, <<"onToolStart", <<"Bash">>>> >>

C10_Witness ==
  \E t \in AllTurns :
    /\ Signals(handled[t]) = TextToolTextSuccess(<<"a">>, <<"b">>)
    /\ Len(handled[t]) = 3
    /\ session[t].cb.sse[Len(session[t].cb.sse)] = <<"complete", <<>>>>

IsToolUseLine(m) ==
  /\ m.type = "assistant"
  /\ Len(m.content) = 1
  /\ m.content[1].type = "tool_use"
  /\ m.content[1].name # Null

\* What a tool_use line does to the callbacks when finalize says whether the
\* current segment is finalized first.
ToolUseStep(t, m, finalize) ==
  LET seg == session[t].s.currentSegment
      name == m.content[1].name
  IN /\ session'[t].s.lastToolName = name
     /\ IF finalize
        THEN /\ session'[t].cb.calls =
                  session[t].cb.calls \o
                    << <<"onSegmentEnd", seg>>, <<"onToolStart", <<name>>>> >>
             /\ session'[t].s.currentSegment = <<>>
        ELSE /\ session'[t].cb.calls =
                  Append(session[t].cb.calls, <<"onToolStart", <<name>>>>)
             /\ session'[t].s.currentSegment = seg

\* C11 (as stated): when a tool_use block arrives and the current segment is
\* non-empty, onSegmentEnd(currentSegment) is invoked before onToolStart(name),
\* the segment is cleared and the pending tool becomes name; when the segment
\* is empty no onSegmentEnd is invoked.
C11_NonEmptySegmentFinalized ==
  [][\A t \in AllTurns, m \in SegLines :
       (IsToolUseLine(m) /\ handled'[t] = Append(handled[t], m))
       => ToolUseStep(t, m, session[t].s.currentSegment # <<>>)]_vars

\* C11 (amended): when a tool_use block arrives and the current segment holds
\* more than white space, onSegmentEnd(currentSegment) is invoked before
\* onToolStart(name), the segment is cleared and the pending tool becomes name;
\* when the segment is empty or holds only white space, no onSegmentEnd is
\* invoked, the segment is kept as it is, onToolStart(name) is invoked and the
\* pending tool becomes name.
C11_NonBlankSegmentFinalized ==
  [][\A t \in AllTurns, m \in SegLines :
       (IsToolUseLine(m) /\ handled'[t] = Append(handled[t], m))
       => ToolUseStep(t, m, NonBlank(session[t].s.currentSegment))]_vars

C11_Witness ==
  \E t \in AllTurns :
    /\ session[t].cb.calls =
         << <<"onChunk", <<" ">>>>, <<"onToolStart", <<"Bash">>>>,
            <<"onToolEnd", <<"Bash">>>>, <<"onChunk", <<"a">>>>,
            <<"onSegmentEnd", <<" ", "a">>>>, <<"onToolStart", <<"Bash">>>> >>
    /\ session[t].s.currentSegment = <<>>
    /\ session[t].s.lastToolName = "Bash"

\* The terminal callback invocation of a result line.
TerminalCall(t, m) ==
  IF m.is_error
  THEN <<"onError", IF m.result # <<>> THEN m.result ELSE <<"Unknown error">>>>
  ELSE <<"onComplete", <<session[t].s.sessionId>>>>

ToolThenFailure(n, e) == << <<"ToolInvoked", <<n>>>>, <<"TurnFailed", e>> >>

\* C12: a result line (success or failure) that arrives while a tool is
\* pending invokes onToolEnd(pendingTool) and then the terminal callback, and
\* clears the pending tool; for ToolInvoked(T), TurnFailed(m) with no text the
\* callbacks are exactly tool_start(T), tool_end(T), error(m), with no
\* segment_end.
C12_ResultEndsPendingTool ==
  /\ [][\A t \in AllTurns, m \in SegLines :
          (/\ m.type = "result"
           /\ handled'[t] = Append(handled[t], m)
           /\ session[t].s.lastToolName # Null)
          => /\ session'[t].cb.calls =
                  session[t].cb.calls \o
                    << <<"onToolEnd", <<session[t].s.lastToolName>>>>,
                       TerminalCall(t, m) >>
             /\ session'[t].s.lastToolName = Null]_vars
  /\ [](\A t \in AllTurns :
          Signals(handled[t]) = ToolThenFailure("Bash", <<"boom">>)
          => /\ session[t].cb.calls =
                  << <<"onToolStart", <<"Bash">>>>, <<"onToolEnd", <<"Bash">>>>,
                     <<"onError", <<"boom">>>> >>
             /\ session[t].cb.sse =
                  << <<"tool_start", <<"Bash">>>>, <<"tool_end", <<"Bash">>>>,
                     <<"error", <<"boom">>>> >>)

C12_Witness ==
  \E t \in AllTurns :
    /\ Signals(handled[t]) = ToolThenFailure("Bash", <<"boom">>)
    /\ session[t].cb.result.error = <<"boom">>
    /\ session[t].s.lastToolName = Null
    /\ pc[t] = "done"

\* C13: every tool_start(name) of a turn is followed by a tool_end(name)
\* before the turn's next tool_start and before its terminal event.
C13_ToolEventsBracketed ==
  \A t \in AllTurns :
    LET sse == session[t].cb.sse
    IN \A i \in 1..Len(sse) : \A j \in (i + 1)..Len(sse) :
         (/\ sse[i][1] = "tool_start"
          /\ sse[j][1] \in {"tool_start", "complete", "no_response",
                            "permission_required", "error"})
         => \E k \in (i + 1)..(j - 1) : sse[k] = <<"tool_end", sse[i][2]>>

\* The turn's last handled line is a successful result.
Succeeded(t) ==
  /\ Len(handled[t]) > 0
  /\ handled[t][Len(handled[t])].type = "result"
  /\ ~handled[t][Len(handled[t])].is_error

LastEvent(t) == session[t].cb.sse[Len(session[t].cb.sse)]

\* The terminal event of a successful result, given whether segment text
\* exists.
TerminalEventIs(t, textExists) ==
  LET denials == session[t].cb.result.permissionDenials
  IN /\ Len(session[t].cb.sse) > 0
     /\ LastEvent(t) =
          IF denials # <<>> THEN <<"permission_required", denials>>
          ELSE IF textExists THEN <<"complete", <<>>>>
          ELSE <<"no_response", <<>>>>
     /\ denials # <<>> <=> handled[t][Len(handled[t])].permission_denials # <<>>

NothingButSuccess(t) ==
  /\ Signals(handled[t]) = << <<"TurnSucceeded", <<>>>> >>
  /\ handled[t][Len(handled[t])].permission_denials = <<>>

\* C14 (as stated): on a successful result the terminal event is
\* permission_required if the deduplicated denial list is non-empty, otherwise
\* complete if any segment text exists (finalized or current), otherwise
\* no_response; with no text, no tool and no denials the only event is
\* no_response.
C14_TerminalEventByText ==
  \A t \in AllTurns :
    Succeeded(t) =>
      /\ TerminalEventIs(t, session[t].cb.currentSegment # <<>>
                            \/ session[t].cb.segments # <<>>)
      /\ NothingButSuccess(t) => session[t].cb.sse = << <<"no_response", <<>>>> >>

\* C14 (amended): on a successful result the terminal event is
\* permission_required if the deduplicated denial list is non-empty, otherwise
\* complete if a segment was finalized or the current segment holds more than
\* white space, otherwise no_response; with no text, no tool and no denials
\* the only callback is onComplete and the only event is no_response.
C14_TerminalEventChoice ==
  \A t \in AllTurns :
    Succeeded(t) =>
      /\ TerminalEventIs(t, NonBlank(session[t].cb.currentSegment)
                            \/ session[t].cb.segments # <<>>)
      /\ NothingButSuccess(t)
         => /\ session[t].cb.sse = << <<"no_response", <<>>>> >>
            /\ session[t].cb.calls = << <<"onComplete", <<Null>>>> >>

C14_Witness ==
  \E t \in AllTurns :
    /\ Succeeded(t)
    /\ session[t].cb.sse =
         << <<"chunk", <<" ">>>>, <<"no_response", <<>>>> >>
    /\ pc[t] = "done"

\* The (tool_name, serialized tool_input) pair of a denial.
DenialPair(d) == <<d.tool_name, JSONStringify(d.tool_input)>>

\* The positions of denials that hold the first denial of their pair.
FirstSeen(denials) ==
  {i \in 1..Len(denials) :
     \A j \in 1..(i - 1) : DenialPair(denials[j]) # DenialPair(denials[i])}

\* kept is denials restricted to the positions FirstSeen, in the same order.
IsFirstOfEachPair(kept, denials) ==
  /\ Len(kept) = Cardinality(FirstSeen(denials))
  /\ \A i \in FirstSeen(denials) :
       kept[Cardinality({j \in FirstSeen(denials) : j <= i})] = denials[i]

\* C15: deduplicatePermissionDenials keeps exactly the first denial of every
\* distinct (tool_name, serialized tool_input) pair, in first-seen order,
\* whatever the tool_use_id; applying it to its own result changes nothing.
C15_KeepsFirstOfEachPair ==
  \A t \in AllTurns :
    Succeeded(t) =>
      LET denials == handled[t][Len(handled[t])].permission_denials
          kept == session[t].cb.result.permissionDenials
      IN /\ IsFirstOfEachPair(kept, denials)
         /\ deduplicatePermissionDenials(kept) = kept

C15_Witness ==
  \E t \in AllTurns :
    /\ Succeeded(t)
    /\ handled[t][Len(handled[t])].permission_denials = <<LsBashIn, LsBash, LsBashAgain>>
    /\ session[t].cb.result.permissionDenials = <<LsBashIn, LsBash>>

\* What the read loop hands to handleStreamMessage when the whole output
\* arrives as a single chunk: one pass of the loop body, then the remaining
\* buffer.
SingleChunk(output) ==
  LET decoded == DecodeChunk(<<>>, output)
  IN decoded.parsed \o DecodeRest(decoded.buffer)

\* The turn entered its read loop and has left it at the end of the output.
ReadToEnd(t) == Concluded(t) /\ reader[t] = "released"

\* C16: however the reads cut the newline-delimited output (a last line
\* without its newline included), the read loop hands handleStreamMessage the
\* same messages in the same order as when the whole output is one chunk:
\* while reading, the messages handled and the text buffered are those of the
\* output read so far taken as one chunk, and at the end of the output the
\* messages handled are those of the whole output as one chunk.
C16_SplitIndependent ==
  \A t \in AllTurns :
    /\ pc[t] = "reading"
       => [buffer |-> buffer[t], parsed |-> handled[t]]
            = DecodeChunk(<<>>, SubSeq(stdout[t].written, 1, stdout[t].nread))
    /\ ReadToEnd(t) => handled[t] = SingleChunk(stdout[t].written)

\* Two messages, the second on a last line without its newline, read to the end.
C16_Witness ==
  \E t \in AllTurns :
    /\ ReadToEnd(t)
    /\ stdout[t].written = <<"{", "a", "}", NewLine, "{", "b", "}">>
    /\ handled[t] = <<Assistant(<<TextBlock(<<"a">>)>>), Assistant(<<TextBlock(<<"b">>)>>)>>
    /\ session[t].cb.calls = << <<"onChunk", <<"a">>>>, <<"onChunk", <<"b">>>> >>

\* A line that holds more than white space and is not valid JSON.
IsInvalidLine(line) == Trim(line) # <<>> /\ JSONParse(line) = SyntaxError

IsNotInvalidLine(line) == ~IsInvalidLine(line)

\* The output without its complete lines that are not valid JSON.
WithoutInvalidLines(output) ==
  LET lines == Split(output)
      complete == SubSeq(lines, 1, Len(lines) - 1)
  IN Join(Append(SelectSeq(complete, IsNotInvalidLine), lines[Len(lines)]), FALSE)

HasInvalidLine(output) == WithoutInvalidLines(output) # output

\* C17: a complete line that is not valid JSON is dropped without raising and
\* without any callback: the turn reads on to the end of the output, reports no
\* error, and its handled messages and its callbacks are exactly those of the
\* output without that line.
C17_InvalidLineDropped ==
  \A t \in AllTurns :
    (ReadToEnd(t) /\ HasInvalidLine(stdout[t].written)) =>
      LET expected == SingleChunk(WithoutInvalidLines(stdout[t].written))
      IN /\ handled[t] = expected
         /\ session[t] =
              HandleLines([s |-> NewSession(Null), cb |-> NewStreamingState], expected)
         /\ Count(CallNames(t), {"onError"}) = 0
         /\ Len(CallNames(t)) = Len(expected)
         /\ CleanupNames(t) = <<"clearTimeout", "releaseLock", "delete">>

C17_Witness ==
  \E t \in AllTurns :
    /\ ReadToEnd(t)
    /\ stdout[t].written =
         <<"{", "a", "}", NewLine, "{", "a", NewLine, "{", "b", "}", NewLine>>
    /\ session[t].cb.calls = << <<"onChunk", <<"a">>>>, <<"onChunk", <<"b">>>> >>

ResultArrived(t) == \E i \in 1..Len(handled[t]) : handled[t][i].type = "result"

\* C18: a turn whose process exited with a non-zero code, without a timeout
\* and without a result line, has invoked onError once the call returns; if a
\* result line did arrive, the non-zero exit adds no terminal callback.
C18_NonZeroExitReported ==
  \A t \in AllTurns :
    (pc[t] = "done" /\ proc[t] = "exitedN" /\ ~timedOut[t] /\ reader[t] = "released")
    => IF ResultArrived(t)
       THEN TerminalCalls(t) = Count([i \in 1..Len(handled[t]) |-> handled[t][i].type],
                                     {"result"})
       ELSE Count(CallNames(t), {"onError"}) >= 1

\* The call returned from the catch of its stdin write: it has left "new"
\* without ever taking the stdout reader.
WriteFailed(t) == pc[t] # "new" /\ reader[t] = "none"

\* C19: when the write of the turn input to stdin fails, the timer is
\* cancelled, the session is removed from the registry, onError is invoked
\* and the process is killed, in this order; the read loop is never entered
\* and onError, invoked once, stays the turn's only callback.
C19_WriteFailureOrder ==
  \A t \in AllTurns :
    WriteFailed(t) =>
      /\ exitLog[t] = << <<"clearTimeout", t>>, <<"delete", t>>,
                         <<"onError", t>>, <<"kill", t>> >>
      /\ timer[t] = "cancelled"
      /\ activeSessions[conversationId[t]] # t
      /\ session[t].cb.calls = << <<"onError", <<"Failed to send message">>>> >>
      /\ proc[t] = "killed"
      /\ pc[t] = "done"
      /\ handled[t] = <<>>
      /\ ~timedOut[t]

C19_Witness ==
  \E t, u \in AllTurns :
    /\ t < u /\ conversationId[t] = conversationId[u]
    /\ WriteFailed(t)
    /\ ~WriteFailed(u) /\ pc[u] = "done" /\ u \notin cancelled

ReadErrorCall == <<"onError", <<"Stream read error">>>>
TimedOutCall == <<"onError", <<"Request timed out">>>>

\* C20: a read error on stdout invokes onError when no timeout has fired in
\* the turn and invokes nothing when the timeout has fired; so a read error is
\* never reported after the timeout was.
C20_ReadErrorUnlessTimedOut ==
  /\ [][\A t \in AllTurns :
          ReadError(t)
          => session'[t].cb.calls =
               IF timedOut[t] THEN session[t].cb.calls
               ELSE Append(session[t].cb.calls, ReadErrorCall)]_vars
  /\ [](\A t \in AllTurns : \A i, j \in 1..Len(session[t].cb.calls) :
          (session[t].cb.calls[i] = TimedOutCall /\ session[t].cb.calls[j] = ReadErrorCall)
          => j < i)

C20_Witness ==
  \E t, u \in AllTurns :
    /\ timedOut[t] /\ Concluded(t) /\ session[t].cb.calls = <<TimedOutCall>>
    /\ ~timedOut[u] /\ Concluded(u) /\ session[u].cb.calls = <<ReadErrorCall>>

\* C25: a turn's cleanup removes only its own session: a turn that is still
\* reading and was neither cancelled nor evicted keeps its registry entry,
\* whatever older turns of its conversation do when their read loops end.
C25_CleanupRemovesOwnEntry ==
  \A t \in AllTurns : LiveTurn(t) => activeSessions[conversationId[t]] = t

\* C26: every turn that was neither cancelled nor evicted has invoked a
\* terminal callback (onComplete or onError) when runClaudeStreaming returns,
\* also when stdout ended with exit code 0 and no result line.
C26_TerminalCallbackBeforeReturn ==
  \A t \in AllTurns :
    (pc[t] = "done" /\ t \notin cancelled /\ t \notin evicted) => TerminalCalls(t) >= 1

\* A user message whose string content wraps a non-empty text in the marker.
IsCommandOutput(m) ==
  m.type = "user" /\ m.command_output # NoMatch /\ m.command_output[1] # <<>>

\* C29: a user message that wraps text in the local-command-output marker,
\* arriving while a tool is pending, invokes onToolEnd(pendingTool), clears the
\* pending tool and then invokes onChunk(extractedText), as assistant text does.
C29_CommandOutputEndsPendingTool ==
  [][\A t \in AllTurns, m \in CmdLines :
       (/\ IsCommandOutput(m)
        /\ handled'[t] = Append(handled[t], m)
        /\ session[t].s.lastToolName # Null)
       => /\ session'[t].cb.calls =
               session[t].cb.calls \o
                 << <<"onToolEnd", <<session[t].s.lastToolName>>>>,
                    <<"onChunk", Trim(m.command_output[1])>> >>
          /\ session'[t].s.lastToolName = Null]_vars

\* The texts of the onChunk calls among calls[from..to], concatenated in order.
RECURSIVE ChunkText(_, _, _)
ChunkText(calls, from, to) ==
  IF from > to THEN <<>>
  ELSE (IF calls[from][1] = "onChunk" THEN calls[from][2] ELSE <<>>)
       \o ChunkText(calls, from + 1, to)

\* The position of the last onSegmentEnd call before position i, or 0.
PreviousSegmentEnd(calls, i) ==
  LET ends == {j \in 1..(i - 1) : calls[j][1] = "onSegmentEnd"}
  IN IF ends = {} THEN 0 ELSE CHOOSE j \in ends : \A k \in ends : k <= j

\* C30: every content passed to onSegmentEnd is non-empty and is the in-order
\* concatenation of the texts of the onChunk calls since the previous
\* onSegmentEnd (or since the start of the turn); the finalized segments are
\* these contents, and a finalized segment is never modified afterwards.
C30_SegmentIsItsChunks ==
  /\ [](\A t \in AllTurns :
          LET calls == session[t].cb.calls
              ends == SelectSeq(calls, LAMBDA c : c[1] = "onSegmentEnd")
          IN /\ \A i \in 1..Len(calls) :
                  calls[i][1] = "onSegmentEnd"
                  => /\ calls[i][2] # <<>>
                     /\ calls[i][2] =
                          ChunkText(calls, PreviousSegmentEnd(calls, i) + 1, i - 1)
             /\ session[t].cb.segments = [i \in 1..Len(ends) |-> ends[i][2]])
  /\ [][\A t \in AllTurns :
          IsPrefix(session[t].cb.segments, session'[t].cb.segments)]_vars

C30_Witness ==
  \E t \in AllTurns :
    /\ session[t].cb.segments = << <<" ", "a">>, <<"b">> >>
    /\ Len(session[t].cb.calls) = 8

HasOp(t, name) == \E i \in 1..Len(exitLog[t]) : exitLog[t][i] = <<name, t>>

C23_ReturnsOnlyOnSuccess ==
  \A t \in PlainTurns :
    /\ pc[t] # "done" => response[t].outcome = "none"
    /\ pc[t] = "done" =>
         /\ response[t].outcome \in {"returned", "threw"}
         /\ timer[t] # "pending" /\ HasOp(t, "clearTimeout")
         /\ reader[t] = "released" /\ HasOp(t, "releaseLock")
         /\ (timedOut[t] \/ proc[t] # "exited0") => response[t].outcome = "threw"
    /\ response[t].outcome = "returned" => proc[t] = "exited0" /\ ~timedOut[t]
    /\ response[t].outcome = "threw" => HasOp(t, "kill") /\ proc[t] # "running"

C23_Witness ==
  \E t \in PlainTurns :
    /\ response[t] = [text |-> <<"a", "b">>, sessionId |-> "s1", outcome |-> "threw"]
    /\ proc[t] = "exitedN" /\ ~timedOut[t]
    /\ timer[t] = "cancelled" /\ reader[t] = "released"

\* C28: in runClaudeStreaming and in runClaude the timer is cancelled when the
\* read loop ends, before proc.exited is awaited: once a call has left its
\* read loop its timer is not pending, and neither the timer nor `timedOut`
\* changes afterwards.
C28_NoTimeoutAfterReadLoop ==
  /\ [](\A t \in AllTurns : Concluded(t) => timer[t] # "pending")
  /\ [][\A t \in AllTurns :
          Concluded(t) => timer'[t] = timer[t] /\ timedOut'[t] = timedOut[t]]_vars

C28_Witness ==
  \E t \in StreamTurns, u \in PlainTurns :
    /\ pc[t] = "awaitExit" /\ pc[u] = "awaitExit"
    /\ timer[t] = "cancelled" /\ timer[u] = "cancelled"
    /\ handled[t] # <<>> /\ handled[u] # <<>>
    /\ ~timedOut[t] /\ ~timedOut[u]

\* C21: a turn that has been evicted or cancelled reports no session id
\* through onComplete from then on and causes no updateClaudeSessionId.
ReportsSessionId(call) == call[1] = "onComplete" /\ call[2] # <<Null>>

C21_OnlyHolderAdvancesToken ==
  [][\A t \in AllTurns :
       t \in evicted \cup cancelled =>
         /\ \A i \in (Len(session[t].cb.calls) + 1)..Len(session'[t].cb.calls) :
              ~ReportsSessionId(session'[t].cb.calls[i])
         /\ \A i \in (Len(db.calls[t]) + 1)..Len(db'.calls[t]) :
              db'.calls[t][i][1] # "updateClaudeSessionId"]_vars

\* C22: createMessage for assistant content and updateClaudeSessionId are
\* called only after runClaudeStreaming has returned, and once the first of
\* these calls was made no callback of that turn is invoked.
C22_PersistAfterCallbacks ==
  [][\A t \in AllTurns :
       /\ db'.calls[t] # db.calls[t] => pc[t] \in {"done", "persisting"}
       /\ db.calls[t] # <<>> => session'[t].cb.calls = session[t].cb.calls]_vars

C22_Witness ==
  \E t, u \in AllTurns :
    /\ pc[t] = "persisting"
    /\ db.calls[t] = << <<"updateClaudeSessionId", "c1", "s1">> >>
    /\ session[t].cb.segments = <<>> /\ session[t].cb.currentSegment = <<"a">>
    /\ pc[u] = "reading" /\ handled[u] # <<>>

\* C24: the three limits are enforced apart from each other for each user: a
\* request is answered with 429 only when that user had already made, through
\* the same limiter and in its current window, as many requests as the limiter
\* allows (10 for the stream endpoints, 30 for /chat, 10 for /auth).
Configs == {standardRateLimit, claudeRateLimit, authRateLimit}

C24_LimitsIndependent ==
  \A i \in 1..Len(requests.last) :
    LET r == requests.last[i]
    IN r.status = 429 =>
         \E config \in Configs :
           config.name = r.limiter /\ r.made >= config.maxRequests

\* C31: when a turn ends without error, the assistant messages stored for it
\* are, in order, the contents of its segment_end events followed by the
\* segment in progress if that is not blank; so the stored messages together
\* are all the text sent in chunks, but for a blank segment in progress.
RECURSIVE Flatten(_)
Flatten(texts) == IF texts = <<>> THEN <<>> ELSE Head(texts) \o Flatten(Tail(texts))

Contents(events, type) ==
  LET chosen == SelectSeq(events, LAMBDA e : e[1] = type)
  IN [i \in 1..Len(chosen) |-> chosen[i][Len(chosen[i])]]

EndedWithoutError(t) ==
  /\ pc[t] = "responded"
  /\ session[t].cb.result.error = NoError
  /\ Contents(session[t].cb.sse, "error") = <<>>

Trailing(state) ==
  IF Trim(state.currentSegment) # <<>> THEN <<state.currentSegment>> ELSE <<>>

C31_StoredMessagesAreSegments ==
  \A t \in AllTurns :
    EndedWithoutError(t) =>
      LET state == session[t].cb
          stored == Contents(db.calls[t], "createMessage")
      IN /\ stored = Contents(state.sse, "segment_end") \o Trailing(state)
         /\ Flatten(stored)
              \o (IF Trailing(state) = <<>> THEN state.currentSegment ELSE <<>>)
            = Flatten(Contents(state.sse, "chunk"))

C31_Witness ==
  \E t \in AllTurns :
    /\ EndedWithoutError(t)
    /\ Contents(db.calls[t], "createMessage") = << <<"a">>, <<"b">> >>
    /\ Contents(session[t].cb.sse, "segment_end") = << <<"a">> >>

\* C32: if onError was invoked in a turn, handleStreamingResponse makes no
\* createMessage, updateClaudeSessionId, title or notification call for it.
C32_NothingStoredAfterError ==
  \A t \in AllTurns :
    Count(CallNames(t), {"onError"}) > 0 => db.calls[t] = <<>>

\* C33: the SSE response of a turn carries at most one terminal event
\* (complete, no_response, permission_required or error), also when a call of
\* persistStreamResult fails after the terminal event was sent.  Stated for
\* the turns in which at most one terminal callback was invoked, so that a
\* second terminal event can only come from handleStreamingResponse itself.
TerminalEvents == {"complete", "no_response", "permission_required", "error"}

TerminalEventCount(t) ==
  Len(SelectSeq(session[t].cb.sse, LAMBDA e : e[1] \in TerminalEvents))

C33_AtMostOneTerminalEvent ==
  \A t \in AllTurns : TerminalCalls(t) <= 1 => TerminalEventCount(t) <= 1

\* C34: the session id passed to onComplete is the session_id of the most
\* recent system event with subtype init and a session_id handled in the turn,
\* or the resume token given to runClaudeStreaming when there was none; other
\* system events leave the session's id as it is.  An empty session_id counts
\* as none.
IsSessionInit(m) ==
  m.type = "system" /\ m.subtype = "init" /\ m.session_id \notin {Null, ""}

MostRecentSessionId(lines, resumeToken) ==
  LET inits == {i \in 1..Len(lines) : IsSessionInit(lines[i])}
  IN IF inits = {} THEN resumeToken
     ELSE lines[CHOOSE i \in inits : \A j \in inits : j <= i].session_id

C34_SessionIdOfLastInit ==
  \A t \in AllTurns :
    pc[t] # "new" =>
      LET expected ==
            MostRecentSessionId(handled[t], db.conversation[t][1].claudeSessionId)
          calls == session[t].cb.calls
      IN /\ session[t].s.sessionId = expected
         /\ \A i \in 1..Len(calls) :
              calls[i][1] = "onComplete" => calls[i][2] = <<expected>>

C34_Witness ==
  \E t \in AllTurns :
    /\ db.conversation[t] # <<>>
    /\ db.conversation[t][1].claudeSessionId = "s0"
    /\ handled[t] = <<SystemInit("s1"),
                      StreamMessage("system", "status", "s3", <<>>, <<>>, FALSE,
                                    <<>>, NoMatch),
                      ResultOk(<<>>, <<>>)>>
    /\ session[t].cb.calls = << <<"onComplete", <<"s1">>>> >>

\* C35: for the same process output, the text runClaude returns is the
\* in-order concatenation of the texts the streaming call passes on as chunks
\* (its TextDelta signals), text on a last line without newline included.
Output(t) == handled[t] \o (IF buffer[t] = NoLine THEN <<>> ELSE <<buffer[t]>>)

C35_SameTextAsStreaming ==
  \A t \in StreamTurns, u \in PlainTurns :
    /\ pc[t] = "done" /\ response[u].outcome = "returned"
    /\ Output(t) = Output(u)
    => response[u].text = Flatten(Contents(session[t].cb.sse, "chunk"))

\* C36: an event that yields no signal (a type other than system, assistant,
\* user and result; a system event that is not an init with a session_id;
\* an assistant event whose blocks are texts without text or tool_use blocks
\* without name; a user event without marked output) invokes no callback and
\* leaves sessionId, currentSegment and the pending tool as they are: the
\* session is what it would be had these events not been written.
IsEmptyBlock(b) ==
  \/ b.type = "text" /\ b.text = <<>>
  \/ b.type = "tool_use" /\ b.name = Null

YieldsNoSignal(m) ==
  \/ m.type \notin {"system", "assistant", "user", "result"}
  \/ m.type = "system" /\ ~(m.subtype = "init" /\ m.session_id \notin {Null, ""})
  \/ m.type = "assistant" /\ \A i \in 1..Len(m.content) : IsEmptyBlock(m.content[i])
  \/ m.type = "user" /\ (m.command_output = NoMatch \/ m.command_output = Match(<<>>))

YieldsSignal(m) == ~YieldsNoSignal(m)

C36_IgnoredEventsChangeNothing ==
  \A t \in AllTurns :
    pc[t] # "new" =>
      session[t] = HandleLines([s |-> NewSession(Null), cb |-> NewStreamingState],
                               SelectSeq(handled[t], YieldsSignal))

C36_Witness ==
  \E t \in AllTurns :
    /\ Len(handled[t]) = 4
    /\ handled[t][2] = Assistant(<<TextBlock(<<>>)>>)
    /\ handled[t][3] = UserString(NoMatch)
    /\ session[t].s.lastToolName = Null
    /\ session[t].cb.calls =
         << <<"onChunk", <<"a">>>>, <<"onSegmentEnd", <<"a">>>>,
            <<"onToolStart", <<"Bash">>>>, <<"onToolEnd", <<"Bash">>>>,
            <<"onComplete", <<Null>>>> >>

\* C37: for one limiter and one key, at most maxRequests requests are admitted
\* in a window (from its creation to its resetAt); a rejected request is
\* answered 429 and leaves the store as it is; the first request after
\* resetAt has passed starts a new window with count 1.
RequestStep(user, route) ==
  LET config == Limiter(route)
      key == Key(route, user, Ip(user))
      entry == StoreGet(rateLimitStore, key)
      status == requests'.last[1].status
  IN /\ \A k \in DOMAIN rateLimitStore \ {key} :
          k \in DOMAIN rateLimitStore' /\ rateLimitStore'[k] = rateLimitStore[k]
     /\ IF entry = NoEntry \/ entry[1].resetAt < now
        THEN /\ status = 200
             /\ rateLimitStore'[key] = [count |-> 1, resetAt |-> now + config.windowMs]
        ELSE IF entry[1].count >= config.maxRequests
             THEN status = 429 /\ rateLimitStore' = rateLimitStore
             ELSE /\ status = 200
                  /\ rateLimitStore'[key] = [entry[1] EXCEPT !.count = @ + 1]

C37_WindowAdmitsAtMostMax ==
  /\ [](\A client \in WindowClients :
          LET key == Key(client[2], client[1], Ip(client[1]))
          IN key \in DOMAIN rateLimitStore =>
               rateLimitStore[key].count <= Limiter(client[2]).maxRequests)
  /\ [][\A client \in WindowClients :
          Request(client[1], Ip(client[1]), client[2])
          => RequestStep(client[1], client[2])]_vars

C37_Witness ==
  /\ now = 2 * TickMs
  /\ "u1" \in DOMAIN rateLimitStore
  /\ rateLimitStore["u1"] = [count |-> 1, resetAt |-> now + claudeRateLimit.windowMs]
  /\ "ip1" \in DOMAIN rateLimitStore
  /\ rateLimitStore["ip1"].count = authRateLimit.maxRequests
  /\ requests.last # <<>>
  /\ requests.last[1].limiter = "auth" /\ requests.last[1].status = 429

\* C38: once a client that followed nextCursor from the first page of
\* getMessages or getConversations has been told hasMore = false, the pages
\* it was given hold every stored item of the conversation (of the user)
\* exactly once, items of equal timestamp included; and on every page
\* nextCursor is null exactly when hasMore is false.
Ids(q) == [i \in 1..Len(q) |-> q[i].id]

Stored(r) ==
  IF r.query = "getMessages"
  THEN {m.id : m \in {x \in Rows(db.messages) : x.conversation_id = r.owner}}
  ELSE {c.id : c \in {x \in Rows(db.conversations) : x.user_id = r.owner}}

NoneRepeated(q) == \A i, j \in 1..Len(q) : i # j => q[i] # q[j]

C38_PagesCoverEveryItemOnce ==
  \A t \in PageTurns :
    /\ pc[t] \in {"paging", "loaded"}
       => (response[t].nextCursor = NoCursor <=> ~response[t].hasMore)
    /\ pc[t] = "loaded"
       => /\ NoneRepeated(Ids(response[t].loaded))
          /\ Rows(Ids(response[t].loaded)) = Stored(response[t])

====
